---- MODULE Spec2Model ----
(***************************************************************************)
(* Studymate: the local persistence and derived-metrics layer.             *)
(*                                                                         *)
(* Every page of the application is a view controller that loads its      *)
(* collections from localStorage when it mounts, mutates them in memory    *)
(* and writes them back from a React effect.  One page is mounted at a     *)
(* time; `view` names it.  Exceptions of the JavaScript code are modelled  *)
(* as result records ([threw |-> TRUE]) and a write that throws            *)
(* (QuotaExceededError) as a nondeterministic outcome of every setItem.    *)
(***************************************************************************)
EXTENDS Integers, Sequences, FiniteSets, TLC

VARIABLES
    view,        \* the page that is mounted
    now,         \* the wall clock (Date.now()), in ticks
    ls,          \* localStorage: key -> stored text
    nextId,      \* crypto.randomUUID(): the next fresh identifier
    dashboard,   \* state of the Dashboard component
    subjectsView, \* state of the Subjects page
    manager,     \* state of the SubjectManager modal
    toast,       \* the Undo toast of a bulk delete: the closure it holds
    tasksView,   \* state of the Tasks page
    analytics,   \* state of the Analytics page
    profileView, \* state of the Profile page
    last,        \* the last handler that ran, with the state before it
    writeFailures, \* how many writes to localStorage have thrown so far
    tabB,        \* the same page mounted in a second browser tab
    metrics,     \* the sessions and the subject the derived metrics are computed from
    notesView    \* state of the Notes Hub page

vars == <<view, now, ls, nextId, dashboard, subjectsView, manager, toast,
          tasksView, analytics, profileView, last, writeFailures, tabB, metrics, notesView>>

\* the state of the pages other than the one an action belongs to
notDashboard == <<subjectsView, manager, toast, tasksView, analytics, profileView,
                   tabB, metrics, notesView>>
notSubjects  == <<dashboard, tasksView, analytics, profileView, tabB, metrics, notesView>>
notTasks     == <<dashboard, subjectsView, manager, toast, analytics, profileView,
                   tabB, metrics, notesView>>
notAnalytics == <<dashboard, subjectsView, manager, toast, tasksView, profileView,
                   tabB, metrics, notesView>>
notProfile   == <<dashboard, subjectsView, manager, toast, tasksView, analytics,
                   tabB, metrics, notesView>>
pages        == <<dashboard, subjectsView, manager, toast, tasksView, analytics,
                  profileView, tabB, metrics, notesView>>

-----------------------------------------------------------------------------
(* Bounds of the model *)

TicksPerDay == 2
MaxDay == 3
MaxSessions == 2
MaxWriteFailures == 1
MaxSubjects == 2
MaxTasks == 2
MaxId == 3
MaxNotes == 2
MaxAchievements == 1

MaxNow == (MaxDay + 1) * TicksPerDay - 1

-----------------------------------------------------------------------------
(* Dates.  An instant is a number of ticks; an ISO string is the pair of   *)
(* its date part and its time part.                                        *)

\* Date.prototype.toISOString
toISOString(t) == <<t \div TicksPerDay, t % TicksPerDay>>

\* new Date(isoString).getTime()
DateParse(s) == s[1] * TicksPerDay + s[2]

\* date.setHours(0, 0, 0, 0); date.getTime()
setHoursZero(t) == (t \div TicksPerDay) * TicksPerDay

\* 1000 * 60 * 60 * 24 milliseconds, in ticks
MsPerDay == TicksPerDay

\* The calendar: local time is UTC and tick 0 is the midnight that begins a
\* Saturday, so that a week (Sunday to Saturday) begins inside the model.
\* Date.prototype.getDay: 0 is Sunday
getDay(t) == ((t \div TicksPerDay) + 6) % 7

\* date-fns startOfWeek(date): Sunday 00:00:00.000 of the week of the date
startOfWeek(t) == ((t \div TicksPerDay) - getDay(t)) * TicksPerDay

\* date-fns endOfWeek(date): Saturday 23:59:59.999 of the week of the date
endOfWeek(t) == startOfWeek(t) + 7 * TicksPerDay - 1

\* Date.prototype.toDateString: the calendar date
toDateString(t) == t \div TicksPerDay

\* String.prototype.trim, on the strings the model types into a field: the
\* one made of spaces only becomes empty, the others have no outer space
trim(s) == IF s = " " THEN "" ELSE s

Max(a, b) == IF a >= b THEN a ELSE b
Min(a, b) == IF a <= b THEN a ELSE b

-----------------------------------------------------------------------------
(* JSON.  A JSON text is modelled by its syntax tree; JSON.stringify       *)
(* builds the tree of a value and JSON.parse rebuilds the value from it.   *)

JNum(n)  == [t |-> "num", n |-> n]
JStr(s)  == [t |-> "str", s |-> s]
JDate(s) == [t |-> "str", iso |-> s]
JBool(b) == [t |-> "bool", b |-> b]
JArr(items) == [t |-> "arr", items |-> items]
JObj(fields) == [t |-> "obj", fields |-> fields]

\* the member of an object's field list that JSON.parse keeps for key k
JField(fields, k) ==
    LET i == CHOOSE i \in 1..Len(fields) :
                 /\ fields[i][1] = k
                 /\ \A j \in (i+1)..Len(fields) : fields[j][1] # k
    IN  fields[i][2]

RECURSIVE JSONValue(_)
JSONValue(n) ==
    CASE n.t = "num"  -> n.n
      [] n.t = "str"  -> IF "iso" \in DOMAIN n THEN n.iso ELSE n.s
      [] n.t = "bool" -> n.b
      [] n.t = "arr"  -> [i \in 1..Len(n.items) |-> JSONValue(n.items[i])]
      [] n.t = "obj"  ->
            [k \in {n.fields[i][1] : i \in 1..Len(n.fields)} |->
                JSONValue(JField(n.fields, k))]

\* What localStorage holds under a key: nothing (getItem returns null), the
\* empty string, a text that is no JSON, or a JSON text.
Null      == [t |-> "null"]
EmptyText == [t |-> "empty"]
Corrupt   == [t |-> "corrupt"]
Text(json) == [t |-> "text", json |-> json]

\* JavaScript truthiness of what getItem returned
Truthy(item) == item.t \in {"corrupt", "text"}

\* JSON.parse(text): the value, or a SyntaxError
JSON_parse(item) ==
    IF item.t = "text"
    THEN [threw |-> FALSE, value |-> JSONValue(item.json)]
    ELSE [threw |-> TRUE]

\* JSON.stringify of a subject that loses the weekly goal
StringifySubject_dropGoal(s) ==
    JObj(<< <<"name", JStr(s.name)>>,
            <<"description", JStr(s.description)>>,
            <<"color", JStr(s.color)>>,
            <<"id", JNum(s.id)>> >>)

\* JSON.stringify of the records of the application
StringifySubject(s) ==
    JObj(<< <<"name", JStr(s.name)>>,
            <<"description", JStr(s.description)>>,
            <<"color", JStr(s.color)>>,
            <<"goalHoursPerWeek", JNum(s.goalHoursPerWeek)>>,
            <<"id", JNum(s.id)>> >>)

StringifySession(s) ==
    JObj(<< <<"id", JNum(s.id)>>,
            <<"date", JDate(s.date)>>,
            <<"durationMinutes", JNum(s.durationMinutes)>>,
            <<"subject", JStr(s.subject)>> >>)

StringifyStreak(s) ==
    JObj(<< <<"currentStreak", JNum(s.currentStreak)>>,
            <<"bestStreak", JNum(s.bestStreak)>>,
            <<"lastStudyDate", JDate(s.lastStudyDate)>> >>)

StringifySubjects(list) ==
    Text(JArr([i \in 1..Len(list) |-> StringifySubject(list[i])]))

StringifySessions(list) ==
    Text(JArr([i \in 1..Len(list) |-> StringifySession(list[i])]))

Keys == {"subjects", "tasks", "studyTime", "streak", "profile"}

\* localStorage.getItem(key)
getItem(store, key) == store[key]

\* localStorage.setItem(key, text): stores the text, or throws
\* (QuotaExceededError) and stores nothing
setItem(store, key, text, quotaOk) ==
    [threw |-> ~quotaOk,
     store |-> IF quotaOk THEN [store EXCEPT ![key] = text] ELSE store]

\* utils/storage getFromStorage(key, defaultValue): never rejects
getFromStorage(store, key, defaultValue) ==
    LET item == getItem(store, key)
    IN  IF Truthy(item) /\ ~JSON_parse(item).threw
        THEN JSON_parse(item).value
        ELSE defaultValue

\* utils/storage setToStorage(key, value): one write, rejects when it throws
setToStorage(store, key, text, quotaOk) == setItem(store, key, text, quotaOk)

\* the outcomes of n writes that the environment can still produce
Count(oks) == Cardinality({i \in DOMAIN oks : ~oks[i]})

QuotaOutcomes(n) ==
    {oks \in [1..n -> BOOLEAN] : writeFailures + Count(oks) <= MaxWriteFailures}

-----------------------------------------------------------------------------
(* The record of the last handler that ran *)

NoOp == [op |-> "none"]

-----------------------------------------------------------------------------
(* Dashboard (pages/Dashboard) *)

Unmounted == [mounted |-> FALSE]

NoToast == [shown |-> FALSE]

NoError == "null"

\* the streak a Dashboard starts with, and the default of its load
defaultStreak(t) ==
    [currentStreak |-> 0, bestStreak |-> 0, lastStudyDate |-> toISOString(t)]

\* the state of the first render, loadData() started: the three reads of
\* Promise.all are made at once and their results wait in `loading`
DashboardMounted(store, t) ==
    [mounted |-> TRUE,
     isLoading |-> TRUE,
     subjects |-> <<>>,
     studyTime |-> <<>>,
     streak |-> defaultStreak(t),
     error |-> NoError,
     selectedSubject |-> "",
     loading |-> [subjects |-> getFromStorage(store, "subjects", <<>>),
                  studyTime |-> getFromStorage(store, "studyTime", <<>>),
                  streak |-> getFromStorage(store, "streak", defaultStreak(t))]]

\* the two persist effects without the test of isLoading
DashboardPersist_unguarded(d, store, okTime, okStreak) ==
    LET w1 == setToStorage(store, "studyTime", StringifySessions(d.studyTime), okTime)
        w2 == setToStorage(w1.store, "streak", Text(StringifyStreak(d.streak)), okStreak)
    IN  [store |-> w2.store,
         failed |-> (IF w1.threw THEN {"studyTime"} ELSE {})
                    \cup (IF w2.threw THEN {"streak"} ELSE {})]

\* the two persist effects of the Dashboard, run after a render in which
\* studyTime, streak or isLoading changed
DashboardPersist(d, store, okTime, okStreak) ==
    IF d.isLoading
    THEN [store |-> store, failed |-> {}]
    ELSE LET w1 == setToStorage(store, "studyTime", StringifySessions(d.studyTime), okTime)
             w2 == setToStorage(w1.store, "streak", Text(StringifyStreak(d.streak)), okStreak)
         IN  [store |-> w2.store,
              failed |-> (IF w1.threw THEN {"studyTime"} ELSE {})
                         \cup (IF w2.threw THEN {"streak"} ELSE {})]

\* renderWeeklyStreak: dailyStudyMap.  startOfWeek is today moved back by
\* getDay() days with setDate, which keeps the time of day of today
renderWeeklyStreak(studyTime, t) ==
    LET today == t
        weekStart == today - getDay(today) * MsPerDay
        InRange(session) ==
            /\ DateParse(session.date) >= weekStart
            /\ DateParse(session.date) <= today
    IN  [dayIndex \in 0..6 |->
            \/ \E i \in 1..Len(studyTime) :
                  /\ getDay(DateParse(studyTime[i].date)) = dayIndex
                  /\ InRange(studyTime[i])
            \/ /\ dayIndex = getDay(today)
               /\ \E i \in 1..Len(studyTime) :
                     toDateString(DateParse(studyTime[i].date))
                         = toDateString(today)]

\* loadData() resolves: the loaded values become the state, isLoading drops
\* and both persist effects run
loadData ==
    /\ view = "dashboard"
    /\ dashboard.mounted /\ dashboard.isLoading
    /\ \E oks \in QuotaOutcomes(2) :
         LET d == [dashboard EXCEPT !.subjects = dashboard.loading.subjects,
                                    !.studyTime = dashboard.loading.studyTime,
                                    !.streak = dashboard.loading.streak,
                                    !.isLoading = FALSE]
             w == DashboardPersist(d, ls, oks[1], oks[2])
         IN  /\ dashboard' = d
             /\ ls' = w.store
             /\ writeFailures' = writeFailures + Count(oks)
             /\ last' = [op |-> "loadData", failed |-> w.failed,
                         weeklyStreak |-> renderWeeklyStreak(d.studyTime, now),
                         pre |-> [dashboard |-> dashboard, ls |-> ls]]
    /\ UNCHANGED <<view, now, nextId, notDashboard>>

\* the streak rule with the day difference compared strictly
StreakAfterSession_strict(streak, t) ==
    LET today == setHoursZero(t)
        lastStudy == setHoursZero(DateParse(streak.lastStudyDate))
        timeDiff == (today - lastStudy) \div MsPerDay
    IN  IF timeDiff < 1
        THEN [currentStreak |-> streak.currentStreak + 1,
              bestStreak |-> Max(streak.bestStreak, streak.currentStreak + 1),
              lastStudyDate |-> toISOString(today)]
        ELSE [currentStreak |-> 1,
              bestStreak |-> streak.bestStreak,
              lastStudyDate |-> toISOString(today)]

\* the streak rule with the best streak restarted after a gap
StreakAfterSession_restart(streak, t) ==
    LET today == setHoursZero(t)
        lastStudy == setHoursZero(DateParse(streak.lastStudyDate))
        timeDiff == (today - lastStudy) \div MsPerDay
    IN  IF timeDiff <= 1
        THEN [currentStreak |-> streak.currentStreak + 1,
              bestStreak |-> Max(streak.bestStreak, streak.currentStreak + 1),
              lastStudyDate |-> toISOString(today)]
        ELSE [currentStreak |-> 1,
              bestStreak |-> 1,
              lastStudyDate |-> toISOString(today)]

\* the streak rule of handleStudySessionComplete
StreakAfterSession(streak, t) ==
    LET today == setHoursZero(t)
        lastStudy == setHoursZero(DateParse(streak.lastStudyDate))
        timeDiff == (today - lastStudy) \div MsPerDay
    IN  IF timeDiff <= 1
        THEN [currentStreak |-> streak.currentStreak + 1,
              bestStreak |-> Max(streak.bestStreak, streak.currentStreak + 1),
              lastStudyDate |-> toISOString(today)]
        ELSE [currentStreak |-> 1,
              bestStreak |-> streak.bestStreak,
              lastStudyDate |-> toISOString(today)]

\* the guard with zero let through
InvalidDuration_negative(minutes) == minutes < 0

\* the guard of handleStudySessionComplete
InvalidDuration(minutes) == minutes <= 0

MinutesInputs == {-5, 0, 25}

handleStudySessionComplete(minutes) ==
    /\ view = "dashboard"
    /\ dashboard.mounted /\ ~dashboard.isLoading /\ dashboard.error = NoError
    /\ IF InvalidDuration(minutes)
       THEN /\ last' = [op |-> "handleStudySessionComplete", minutes |-> minutes,
                        failed |-> {},
                        pre |-> [dashboard |-> dashboard, ls |-> ls]]
            /\ UNCHANGED <<view, now, ls, nextId, dashboard, writeFailures, notDashboard>>
       ELSE /\ Len(dashboard.studyTime) < MaxSessions
            /\ \E oks \in QuotaOutcomes(2) :
                 LET newSession ==
                         [id |-> nextId,
                          date |-> toISOString(now),
                          durationMinutes |-> minutes,
                          subject |-> IF dashboard.selectedSubject = ""
                                      THEN "General"
                                      ELSE dashboard.selectedSubject]
                     d == [dashboard EXCEPT
                              !.studyTime = Append(dashboard.studyTime, newSession),
                              !.streak = StreakAfterSession(dashboard.streak, now),
                              !.selectedSubject = ""]
                     w == DashboardPersist(d, ls, oks[1], oks[2])
                 IN  /\ dashboard' = d
                     /\ ls' = w.store
                     /\ writeFailures' = writeFailures + Count(oks)
                     /\ last' = [op |-> "handleStudySessionComplete",
                                 minutes |-> minutes, failed |-> w.failed,
                                 weeklyStreak |->
                                     renderWeeklyStreak(d.studyTime, now),
                                 pre |-> [dashboard |-> dashboard, ls |-> ls]]
            /\ nextId' = nextId + 1
            /\ UNCHANGED <<view, now, notDashboard>>

\* the subject <select> of the Dashboard, shown when subjects were loaded
setSelectedSubject ==
    /\ view = "dashboard"
    /\ dashboard.mounted /\ ~dashboard.isLoading /\ dashboard.error = NoError
    /\ Len(dashboard.subjects) > 0
    /\ \E name \in {""} \cup {dashboard.subjects[i].name : i \in 1..Len(dashboard.subjects)} :
         /\ name # dashboard.selectedSubject
         /\ dashboard' = [dashboard EXCEPT !.selectedSubject = name]
    /\ last' = NoOp
    /\ UNCHANGED <<view, now, ls, nextId, writeFailures, notDashboard>>

\* the page is loaded again: a new Dashboard mounts over the same storage,
\* and the persist effects run after its first render
DashboardReload ==
    /\ view = "dashboard"
    /\ dashboard' = DashboardMounted(ls, now)
    /\ ls' = DashboardPersist(DashboardMounted(ls, now), ls, TRUE, TRUE).store
    /\ last' = NoOp
    /\ UNCHANGED <<view, now, nextId, writeFailures, notDashboard>>

\* time passes, on the pages that look at the clock
Tick ==
    /\ view \in {"dashboard", "analytics"}
    /\ now < MaxNow
    /\ now' = now + 1
    /\ last' = NoOp
    /\ UNCHANGED <<view, ls, nextId, writeFailures, pages>>

-----------------------------------------------------------------------------
(* Profile (pages/Profile) and its storage functions *)

\* storage.get with the catch left out
storage_get_nocatch(store, key, defaultValue) ==
    LET item == getItem(store, key)
        parsed == JSON_parse(item)
    IN  IF ~Truthy(item)
        THEN [rejected |-> FALSE, value |-> defaultValue]
        ELSE IF parsed.threw
             THEN [rejected |-> TRUE, value |-> defaultValue]
             ELSE [rejected |-> FALSE, value |-> parsed.value]

\* storage.get(key, defaultValue): the parsed item, or the default when
\* there is no item or JSON.parse throws
storage_get(store, key, defaultValue) ==
    LET item == getItem(store, key)
        parsed == JSON_parse(item)
    IN  IF ~Truthy(item)
        THEN [rejected |-> FALSE, value |-> defaultValue]
        ELSE IF parsed.threw
             THEN [rejected |-> FALSE, value |-> defaultValue]
             ELSE [rejected |-> FALSE, value |-> parsed.value]

\* storage.set that logs the error and does not rethrow it
storage_set_swallow(store, key, text, quotaOk) ==
    LET w == setItem(store, key, text, quotaOk)
    IN  [rejected |-> FALSE, store |-> w.store, attempts |-> 1]

\* storage.set(key, value): one setItem; the error is logged and rethrown
storage_set(store, key, text, quotaOk) ==
    LET w == setItem(store, key, text, quotaOk)
    IN  [rejected |-> w.threw, store |-> w.store, attempts |-> 1]

defaultProfile ==
    [name |-> "", email |-> "", bio |-> "", avatar |-> "",
     studyPreferences |->
        [preferredStudyTime |-> "morning", focusSessionDuration |-> 25,
         breakDuration |-> 5, dailyGoalHours |-> 4,
         notifications |-> TRUE, soundEffects |-> TRUE],
     achievements |-> <<>>]

StringifyAchievement(a) ==
    JObj(<< <<"title", JStr(a.title)>>, <<"description", JStr(a.description)>> >>)

StringifyProfile(p) ==
    Text(JObj(<<
        <<"name", JStr(p.name)>>, <<"email", JStr(p.email)>>,
        <<"bio", JStr(p.bio)>>, <<"avatar", JStr(p.avatar)>>,
        <<"studyPreferences", JObj(<<
            <<"preferredStudyTime", JStr(p.studyPreferences.preferredStudyTime)>>,
            <<"focusSessionDuration", JNum(p.studyPreferences.focusSessionDuration)>>,
            <<"breakDuration", JNum(p.studyPreferences.breakDuration)>>,
            <<"dailyGoalHours", JNum(p.studyPreferences.dailyGoalHours)>>,
            <<"notifications", JBool(p.studyPreferences.notifications)>>,
            <<"soundEffects", JBool(p.studyPreferences.soundEffects)>> >>)>>,
        <<"achievements",
          JArr([i \in 1..Len(p.achievements) |->
                   StringifyAchievement(p.achievements[i])])>> >>))

\* no FileReader is reading
NoReader == [reading |-> FALSE]

\* the first render of Profile, loadProfile() started
ProfileMounted(store) ==
    [mounted |-> TRUE,
     profile |-> defaultProfile,
     isLoading |-> TRUE,
     error |-> NoError,
     isEditing |-> FALSE,
     reader |-> NoReader,
     loading |-> storage_get(store, "profile", defaultProfile)]

\* loadProfile() resolves
loadProfile ==
    /\ view = "profile"
    /\ profileView.mounted /\ profileView.isLoading
    /\ profileView' =
         IF profileView.loading.rejected
         THEN [profileView EXCEPT
                 !.error = "Failed to load profile. Please try refreshing the page.",
                 !.isLoading = FALSE]
         ELSE [profileView EXCEPT !.profile = profileView.loading.value,
                                  !.isLoading = FALSE]
    /\ last' = [op |-> "loadProfile", pre |-> [profileView |-> profileView, ls |-> ls]]
    /\ UNCHANGED <<view, now, ls, nextId, writeFailures, notProfile>>

ProfileShown ==
    /\ view = "profile"
    /\ profileView.mounted /\ ~profileView.isLoading
    /\ profileView.error = NoError

\* the Edit Profile button
setIsEditing ==
    /\ ProfileShown /\ ~profileView.isEditing
    /\ profileView' = [profileView EXCEPT !.isEditing = TRUE]
    /\ last' = NoOp
    /\ UNCHANGED <<view, now, ls, nextId, writeFailures, notProfile>>

NameInputs == {"", "Ann"}

\* handleProfileChange({ name })
handleProfileChange(name) ==
    /\ ProfileShown /\ profileView.isEditing
    /\ name # profileView.profile.name
    /\ profileView' = [profileView EXCEPT !.profile.name = name]
    /\ last' = [op |-> "handleProfileChange",
                pre |-> [profileView |-> profileView, ls |-> ls]]
    /\ UNCHANGED <<view, now, ls, nextId, writeFailures, notProfile>>

\* handleStudyPrefChange({ notifications })
handleStudyPrefChange(notifications) ==
    /\ ProfileShown /\ profileView.isEditing
    /\ notifications # profileView.profile.studyPreferences.notifications
    /\ profileView' =
          [profileView EXCEPT !.profile.studyPreferences.notifications = notifications]
    /\ last' = [op |-> "handleStudyPrefChange",
                pre |-> [profileView |-> profileView, ls |-> ls]]
    /\ UNCHANGED <<view, now, ls, nextId, writeFailures, notProfile>>

\* what the two fields of a new achievement can hold
AchievementInputs == [title : {" ", "Won"}, description : {"", "d"}]

\* addAchievement, with what the fields of the new achievement hold
addAchievement(newAchievement) ==
    /\ ProfileShown /\ profileView.isEditing
    /\ IF trim(newAchievement.title) # "" /\ trim(newAchievement.description) # ""
       THEN /\ Len(profileView.profile.achievements) < MaxAchievements
            /\ profileView' = [profileView EXCEPT !.profile.achievements =
                                  Append(@, newAchievement)]
       ELSE UNCHANGED profileView
    /\ last' = [op |-> "addAchievement", newAchievement |-> newAchievement,
                pre |-> [profileView |-> profileView, ls |-> ls]]
    /\ UNCHANGED <<view, now, ls, nextId, writeFailures, notProfile>>

\* removeAchievement(index)
removeAchievement(index) ==
    /\ ProfileShown /\ profileView.isEditing
    /\ index \in 1..Len(profileView.profile.achievements)
    /\ profileView' = [profileView EXCEPT !.profile.achievements =
                          [i \in 1..(Len(@) - 1) |-> IF i < index THEN @[i] ELSE @[i + 1]]]
    /\ last' = [op |-> "removeAchievement",
                pre |-> [profileView |-> profileView, ls |-> ls]]
    /\ UNCHANGED <<view, now, ls, nextId, writeFailures, notProfile>>

\* handleAvatarChange: a FileReader starts to read the chosen file; its
\* onloadend closes over the profile of this render
handleAvatarChange ==
    /\ ProfileShown /\ profileView.isEditing
    /\ ~profileView.reader.reading
    /\ profileView' = [profileView EXCEPT
                          !.reader = [reading |-> TRUE, profile |-> profileView.profile,
                                      result |-> "data:image"]]
    /\ last' = [op |-> "handleAvatarChange",
                pre |-> [profileView |-> profileView, ls |-> ls]]
    /\ UNCHANGED <<view, now, ls, nextId, writeFailures, notProfile>>

\* reader.onloadend: setProfile({ ...profile, avatar: reader.result }) with
\* the profile the handler closed over
onloadend ==
    /\ view = "profile"
    /\ profileView.mounted /\ profileView.reader.reading
    /\ profileView' = [profileView EXCEPT
                          !.profile = [profileView.reader.profile EXCEPT
                                          !.avatar = profileView.reader.result],
                          !.reader = NoReader]
    /\ last' = [op |-> "reader.onloadend",
                pre |-> [profileView |-> profileView, ls |-> ls]]
    /\ UNCHANGED <<view, now, ls, nextId, writeFailures, notProfile>>

\* saveProfile(updatedProfile): true when the write went through
saveProfile(store, updatedProfile, quotaOk) ==
    LET w == storage_set(store, "profile", StringifyProfile(updatedProfile), quotaOk)
    IN  [result |-> ~w.rejected, store |-> w.store, attempts |-> w.attempts,
         rejected |-> w.rejected]

\* the Save Changes button
handleSaveChanges ==
    /\ ProfileShown /\ profileView.isEditing
    /\ \E oks \in QuotaOutcomes(1) :
         LET r == saveProfile(ls, profileView.profile, oks[1])
         IN  /\ ls' = r.store
             /\ profileView' = [profileView EXCEPT
                                  !.isEditing = IF r.result THEN FALSE ELSE @]
             /\ writeFailures' = writeFailures + Count(oks)
             /\ last' = [op |-> "handleSaveChanges", quotaOk |-> oks[1],
                         result |-> r.result, attempts |-> r.attempts,
                         rejected |-> r.rejected,
                         pre |-> [profileView |-> profileView, ls |-> ls]]
    /\ UNCHANGED <<view, now, nextId, notProfile>>

\* Cancel that only leaves editing mode
handleCancelEdit_keepEdits ==
    /\ ProfileShown /\ profileView.isEditing
    /\ profileView' = [profileView EXCEPT !.isEditing = FALSE]
    /\ last' = [op |-> "handleCancelEdit",
                pre |-> [profileView |-> profileView, ls |-> ls]]
    /\ UNCHANGED <<view, now, ls, nextId, writeFailures, notProfile>>

\* the Cancel button: the stored profile is read again
handleCancelEdit ==
    /\ ProfileShown /\ profileView.isEditing
    /\ LET r == storage_get(ls, "profile", defaultProfile)
       IN  profileView' =
             IF r.rejected
             THEN profileView
             ELSE [profileView EXCEPT !.profile = r.value, !.isEditing = FALSE]
    /\ last' = [op |-> "handleCancelEdit",
                pre |-> [profileView |-> profileView, ls |-> ls]]
    /\ UNCHANGED <<view, now, ls, nextId, writeFailures, notProfile>>

\* the page is loaded again
ProfileReload ==
    /\ view = "profile"
    /\ profileView' = ProfileMounted(ls)
    /\ last' = NoOp
    /\ UNCHANGED <<view, now, ls, nextId, writeFailures, notProfile>>

-----------------------------------------------------------------------------
(* Subjects (pages/Subjects) *)

\* { ...a, ...b }
Spread(a, b) ==
    [k \in DOMAIN a \cup DOMAIN b |-> IF k \in DOMAIN b THEN b[k] ELSE a[k]]

\* the useState initializer of a collection: saved ? JSON.parse(saved) : []
LoadCollection(store, key) ==
    LET saved == getItem(store, key)
    IN  IF Truthy(saved)
        THEN (IF JSON_parse(saved).threw
              THEN [threw |-> TRUE, value |-> <<>>]
              ELSE [threw |-> FALSE, value |-> JSON_parse(saved).value])
        ELSE [threw |-> FALSE, value |-> <<>>]

\* handleAddSubject, run in a render whose state is `rendered`: the state
\* its setSubjects asks for
handleAddSubject(rendered, subjectData, uuid) ==
    [rendered EXCEPT
        !.subjects = Append(rendered.subjects, Spread(subjectData, [id |-> uuid]))]

\* handleEditSubject
handleEditSubject(rendered, id, subjectData) ==
    [rendered EXCEPT
        !.subjects = [i \in 1..Len(rendered.subjects) |->
                         IF rendered.subjects[i].id = id
                         THEN Spread(rendered.subjects[i], subjectData)
                         ELSE rendered.subjects[i]]]

\* handleDeleteSubject that also drops the sessions of the subject
handleDeleteSubject_cascade(rendered, id) ==
    LET Keep(subject) == subject.id # id
        KeepSession(session) ==
            \A i \in 1..Len(rendered.subjects) :
                rendered.subjects[i].id = id =>
                    session.subject # rendered.subjects[i].name
    IN  [rendered EXCEPT
            !.subjects = SelectSeq(rendered.subjects, Keep),
            !.studySessions = SelectSeq(rendered.studySessions, KeepSession)]

\* handleDeleteSubject
handleDeleteSubject(rendered, id) ==
    LET Keep(subject) == subject.id # id
    IN  [rendered EXCEPT !.subjects = SelectSeq(rendered.subjects, Keep)]

\* the first render of Subjects and its persist effect; a throw of an
\* initializer or of the effect takes the page down
SubjectsMounted(store, quotaOk) ==
    LET loadedSubjects == LoadCollection(store, "subjects")
        loadedSessions == LoadCollection(store, "studyTime")
        threw == loadedSubjects.threw \/ loadedSessions.threw
        w == setItem(store, "subjects", StringifySubjects(loadedSubjects.value), quotaOk)
    IN  [view |-> [mounted |-> TRUE,
                   crashed |-> threw \/ w.threw,
                   subjects |-> loadedSubjects.value,
                   studySessions |-> loadedSessions.value,
                   showManager |-> FALSE],
         store |-> IF threw THEN store ELSE w.store,
         wrote |-> ~threw,
         failed |-> ~threw /\ w.threw]

\* the first render of SubjectManager
ManagerMounted ==
    [mounted |-> TRUE, editingId |-> 0,    \* 0 stands for null
     selectedSubjects |-> <<>>, deletedSubjects |-> <<>>,
     startTimes |-> [id \in {} |-> 0], progressMap |-> [id \in {} |-> 0]]

SubjectsShown ==
    /\ view = "subjects"
    /\ subjectsView.mounted /\ ~subjectsView.crashed

ManagerShown == SubjectsShown /\ subjectsView.showManager

\* what a handler of the Subjects page closes over: the state of its render
Closure(sv) == [subjects |-> sv.subjects, studySessions |-> sv.studySessions]

\* the state before a handler, as the properties below look at it
SubjectsBefore ==
    [subjects |-> subjectsView.subjects,
     studySessions |-> subjectsView.studySessions,
     studyTime |-> ls["studyTime"],
     selectedSubjects |-> IF manager.mounted THEN manager.selectedSubjects ELSE <<>>]

\* the render that follows setSubjects, and its persist effect
SubjectsCommit(next, op) ==
    \E oks \in QuotaOutcomes(1) :
        LET w == setItem(ls, "subjects", StringifySubjects(next.subjects), oks[1])
        IN  /\ subjectsView' = [subjectsView EXCEPT
                                   !.subjects = next.subjects,
                                   !.studySessions = next.studySessions,
                                   !.crashed = w.threw]
            /\ ls' = w.store
            /\ writeFailures' = writeFailures + Count(oks)
            /\ last' = [op |-> op, failed |-> w.threw,
                        pre |-> SubjectsBefore]

\* the Add Subject buttons, and the close button of the modal
setShowManager ==
    /\ SubjectsShown
    /\ subjectsView' = [subjectsView EXCEPT !.showManager = ~@]
    /\ manager' = IF subjectsView.showManager THEN Unmounted ELSE ManagerMounted
    /\ last' = NoOp
    /\ UNCHANGED <<view, now, ls, nextId, toast, writeFailures, notSubjects>>

COLORS == <<"#FF6B6B">>

\* what the form can hold when it is submitted
FormInputs ==
    {[name |-> "", description |-> "", color |-> COLORS[1], goalHoursPerWeek |-> 5],
     [name |-> "Math", description |-> "", color |-> COLORS[1], goalHoursPerWeek |-> 5]}

\* SubjectManager.handleSubmit
handleSubmit(formData) ==
    /\ ManagerShown
    /\ IF formData.name = ""
       THEN /\ last' = [op |-> "handleSubmit", failed |-> FALSE,
                        pre |-> SubjectsBefore]
            /\ UNCHANGED <<subjectsView, manager, ls, nextId, writeFailures>>
       ELSE IF manager.editingId # 0
            THEN /\ SubjectsCommit(
                      handleEditSubject(subjectsView, manager.editingId, formData),
                      "handleEditSubject")
                 /\ manager' = [manager EXCEPT !.editingId = 0]
                 /\ UNCHANGED nextId
            ELSE /\ nextId <= MaxId
                 /\ Len(subjectsView.subjects) < MaxSubjects
                 /\ SubjectsCommit(handleAddSubject(subjectsView, formData, nextId),
                                   "handleAddSubject")
                 /\ nextId' = nextId + 1
                 /\ UNCHANGED manager
    /\ UNCHANGED <<view, now, toast, notSubjects>>

\* SubjectManager.handleEdit
handleEdit(id) ==
    /\ ManagerShown
    /\ manager.editingId # id
    /\ manager' = [manager EXCEPT !.editingId = id]
    /\ last' = NoOp
    /\ UNCHANGED <<view, now, ls, nextId, subjectsView, toast, writeFailures, notSubjects>>

\* SubjectManager.handleDelete
handleDelete(id) ==
    /\ ManagerShown
    /\ SubjectsCommit(handleDeleteSubject(subjectsView, id), "handleDeleteSubject")
    /\ UNCHANGED <<view, now, nextId, manager, toast, notSubjects>>

\* what can be typed into the weekly-goal field: an optional minus sign,
\* leading digits (digits = -1 when there is none) and a rest
GoalTexts ==
    [minus : BOOLEAN, digits : {-1, 0, 2, 7}, rest : {"", ".5", "abc"}]

\* parseInt(text): the integer of the leading sign and digits, or NaN
parseInt(text) ==
    IF text.digits = -1
    THEN [nan |-> TRUE, n |-> 0]
    ELSE [nan |-> FALSE, n |-> IF text.minus THEN 0 - text.digits ELSE text.digits]

\* the onChange of the weekly-goal field without Math.max
GoalFieldChange_noMax(text) ==
    IF parseInt(text).nan \/ parseInt(text).n = 0 THEN 0 ELSE parseInt(text).n

\* the onChange of the weekly-goal field:
\* Math.max(0, parseInt(e.target.value) || 0)
GoalFieldChange(text) ==
    LET parsed == parseInt(text)
        orZero == IF parsed.nan \/ parsed.n = 0 THEN 0 ELSE parsed.n
    IN  Max(0, orZero)

\* what the form can hold when it is submitted after the goal was typed
GoalFormInputs ==
    {[name |-> "Math", description |-> "", color |-> COLORS[1],
      goalHoursPerWeek |-> GoalFieldChange(text)] : text \in GoalTexts}

\* the interval of SubjectManager fires: a second has passed and the modal
\* renders again
forceRender ==
    /\ ManagerShown
    /\ now < MaxNow
    /\ now' = now + 1
    /\ last' = NoOp
    /\ UNCHANGED <<view, ls, nextId, subjectsView, manager, toast, writeFailures,
                   notSubjects>>

\* SubjectManager.handleStart; Date.now() is the clock
handleStart(id) ==
    /\ ManagerShown
    /\ id \notin DOMAIN manager.startTimes     \* the Start button is disabled
    /\ manager' = [manager EXCEPT
                      !.startTimes = [k \in DOMAIN @ \cup {id} |->
                                         IF k = id THEN now ELSE @[k]]]
    /\ last' = [op |-> "handleStart", id |-> id,
                pre |-> [manager |-> manager, ls |-> ls]]
    /\ UNCHANGED <<view, now, ls, nextId, subjectsView, toast, writeFailures,
                   notSubjects>>

\* progressMap after handleStop that replaces the tracked hours
ProgressAfterStop_replace(progressMap, id, elapsedHours) ==
    [k \in DOMAIN progressMap \cup {id} |->
        IF k = id THEN elapsedHours ELSE progressMap[k]]

\* setProgressMap(prev => ({ ...prev, [id]: (prev[id] || 0) + elapsedHours }))
ProgressAfterStop(progressMap, id, elapsedHours) ==
    [k \in DOMAIN progressMap \cup {id} |->
        IF k = id
        THEN (IF id \in DOMAIN progressMap THEN progressMap[id] ELSE 0) + elapsedHours
        ELSE progressMap[k]]

\* SubjectManager.handleStop; a timestamp of Date.now() is never 0, so
\* !start is true only when no timer runs for id
handleStop(id) ==
    /\ ManagerShown
    /\ IF id \notin DOMAIN manager.startTimes
       THEN UNCHANGED manager
       ELSE LET start == manager.startTimes[id]
                elapsedTicks == now - start
                elapsedHours == (elapsedTicks * 24) \div TicksPerDay
            IN  manager' = [manager EXCEPT
                    !.progressMap = ProgressAfterStop(@, id, elapsedHours),
                    !.startTimes = [k \in DOMAIN @ \ {id} |-> @[k]]]
    /\ last' = [op |-> "handleStop", id |-> id,
                pre |-> [manager |-> manager, ls |-> ls]]
    /\ UNCHANGED <<view, now, ls, nextId, subjectsView, toast, writeFailures,
                   notSubjects>>

\* the identifiers of a list of records
Ids(list) == {list[i].id : i \in 1..Len(list)}

\* SubjectManager.toggleSubjectSelection: a Set keeps insertion order
toggleSubjectSelection(subjectId) ==
    /\ ManagerShown
    /\ LET Other(id) == id # subjectId
       IN  manager' = [manager EXCEPT !.selectedSubjects =
                        IF \E i \in 1..Len(@) : @[i] = subjectId
                        THEN SelectSeq(@, Other)
                        ELSE Append(@, subjectId)]
    /\ last' = NoOp
    /\ UNCHANGED <<view, now, ls, nextId, subjectsView, toast, writeFailures, notSubjects>>

\* SubjectManager.toggleSelectAll
toggleSelectAll ==
    /\ ManagerShown
    /\ manager' = [manager EXCEPT !.selectedSubjects =
                     IF Len(@) = Len(subjectsView.subjects)
                     THEN <<>>
                     ELSE [i \in 1..Len(subjectsView.subjects) |->
                              subjectsView.subjects[i].id]]
    /\ manager' # manager
    /\ last' = NoOp
    /\ UNCHANGED <<view, now, ls, nextId, subjectsView, toast, writeFailures, notSubjects>>

\* the calls onDeleteSubject(id) of one render, made in turn: each filters
\* the list of that render, and the last setSubjects stands
RECURSIVE DeleteEach(_, _, _)
DeleteEach(rendered, ids, result) ==
    IF ids = <<>> THEN result
    ELSE DeleteEach(rendered, Tail(ids), handleDeleteSubject(rendered, Head(ids)))

\* SubjectManager.handleBulkDelete; the toast keeps handleUndoBulkDelete of
\* the render the handler ran in
handleBulkDelete ==
    /\ ManagerShown
    /\ LET selected == manager.selectedSubjects
           Selected(subject) == \E i \in 1..Len(selected) : selected[i] = subject.id
           toDelete == SelectSeq(subjectsView.subjects, Selected)
       IN  /\ IF selected = <<>>
              THEN /\ last' = [op |-> "handleBulkDelete", failed |-> FALSE,
                               pre |-> SubjectsBefore]
                   /\ UNCHANGED <<subjectsView, ls, writeFailures>>
              ELSE SubjectsCommit(DeleteEach(subjectsView, selected, subjectsView),
                                  "handleBulkDelete")
           /\ manager' = [manager EXCEPT !.deletedSubjects = toDelete,
                                         !.selectedSubjects = <<>>]
           /\ toast' = [shown |-> TRUE,
                        rendered |-> Closure(subjectsView),
                        deletedSubjects |-> manager.deletedSubjects]
    /\ UNCHANGED <<view, now, nextId, notSubjects>>

\* the calls onAddSubject(subject) of one render, made in turn
RECURSIVE AddEach(_, _, _, _)
AddEach(rendered, toAdd, uuid, result) ==
    IF toAdd = <<>> THEN result
    ELSE AddEach(rendered, Tail(toAdd), uuid + 1,
                 handleAddSubject(rendered, Head(toAdd), uuid))

\* the Undo button of the toast: handleUndoBulkDelete of the render in
\* which handleBulkDelete ran
handleUndoBulkDelete ==
    /\ SubjectsShown
    /\ toast.shown
    /\ IF toast.deletedSubjects = <<>>
       THEN /\ last' = [op |-> "handleUndoBulkDelete", failed |-> FALSE,
                        pre |-> SubjectsBefore]
            /\ UNCHANGED <<subjectsView, manager, ls, nextId, writeFailures>>
       ELSE /\ nextId + Len(toast.deletedSubjects) - 1 <= MaxId
            /\ SubjectsCommit(
                 AddEach(toast.rendered, toast.deletedSubjects, nextId, toast.rendered),
                 "handleUndoBulkDelete")
            /\ nextId' = nextId + Len(toast.deletedSubjects)
            /\ manager' = IF manager.mounted
                          THEN [manager EXCEPT !.deletedSubjects = <<>>]
                          ELSE manager
    /\ UNCHANGED <<view, now, toast, notSubjects>>

\* the toast goes away after its duration
ToastDismiss ==
    /\ view = "subjects"
    /\ toast.shown
    /\ toast' = NoToast
    /\ last' = NoOp
    /\ UNCHANGED <<view, now, ls, nextId, subjectsView, manager, writeFailures, notSubjects>>

\* the page is loaded again
SubjectsReload ==
    /\ view = "subjects"
    /\ \E oks \in QuotaOutcomes(1) :
         LET m == SubjectsMounted(ls, oks[1])
         IN  /\ (~m.wrote => oks[1])
             /\ subjectsView' = m.view
             /\ ls' = m.store
             /\ writeFailures' = writeFailures + Count(oks)
             /\ last' = [op |-> "SubjectsMounted", failed |-> m.failed,
                         pre |-> SubjectsBefore]
    /\ manager' = Unmounted
    /\ toast' = NoToast
    /\ UNCHANGED <<view, now, nextId, notSubjects>>

-----------------------------------------------------------------------------
(* Tasks (pages/Tasks) *)

StringifyTask(task) ==
    JObj(<< <<"title", JStr(task.title)>>,
            <<"description", JStr(task.description)>>,
            <<"dueDate", JStr(task.dueDate)>>,
            <<"id", JNum(task.id)>>,
            <<"completed", JBool(task.completed)>> >>)

StringifyTasks(list) ==
    Text(JArr([i \in 1..Len(list) |-> StringifyTask(list[i])]))

\* handleCreateTask that numbers the tasks by their place in the list
handleCreateTask_countId(rendered, taskData, uuid) ==
    [rendered EXCEPT
        !.tasks = Append(rendered.tasks,
                         Spread(taskData, [id |-> Len(rendered.tasks) + 1,
                                           completed |-> FALSE]))]

\* handleCreateTask, run in a render whose state is `rendered`
handleCreateTask(rendered, taskData, uuid) ==
    [rendered EXCEPT
        !.tasks = Append(rendered.tasks,
                         Spread(taskData, [id |-> uuid, completed |-> FALSE]))]

\* handleTaskComplete that marks the task completed instead of flipping it
handleTaskComplete_set(rendered, taskId) ==
    [rendered EXCEPT
        !.tasks = [i \in 1..Len(rendered.tasks) |->
                      IF rendered.tasks[i].id = taskId
                      THEN [rendered.tasks[i] EXCEPT !.completed = TRUE]
                      ELSE rendered.tasks[i]]]

\* handleTaskComplete
handleTaskComplete(rendered, taskId) ==
    [rendered EXCEPT
        !.tasks = [i \in 1..Len(rendered.tasks) |->
                      IF rendered.tasks[i].id = taskId
                      THEN [rendered.tasks[i] EXCEPT !.completed = ~@]
                      ELSE rendered.tasks[i]]]

\* handleUpdateTask; editingTask is a set of at most one task
handleUpdateTask(rendered, taskData) ==
    IF rendered.editingTask = {}
    THEN rendered
    ELSE LET editingTask == CHOOSE task \in rendered.editingTask : TRUE
         IN  [rendered EXCEPT
                 !.tasks = [i \in 1..Len(rendered.tasks) |->
                               IF rendered.tasks[i].id = editingTask.id
                               THEN Spread(Spread(rendered.tasks[i], taskData),
                                           [completed |-> rendered.tasks[i].completed])
                               ELSE rendered.tasks[i]]]

\* handleDeleteTask
handleDeleteTask(rendered, taskId) ==
    LET Keep(task) == task.id # taskId
    IN  [rendered EXCEPT !.tasks = SelectSeq(rendered.tasks, Keep)]

\* the first render of Tasks and its persist effect
TasksMounted(store, quotaOk) ==
    LET loaded == LoadCollection(store, "tasks")
        w == setItem(store, "tasks", StringifyTasks(loaded.value), quotaOk)
    IN  [view |-> [mounted |-> TRUE,
                   crashed |-> loaded.threw \/ w.threw,
                   tasks |-> loaded.value,
                   showForm |-> FALSE,
                   editingTask |-> {}],
         store |-> IF loaded.threw THEN store ELSE w.store,
         wrote |-> ~loaded.threw,
         failed |-> ~loaded.threw /\ w.threw]

TasksShown ==
    /\ view = "tasks"
    /\ tasksView.mounted /\ ~tasksView.crashed

TasksBefore == [tasks |-> tasksView.tasks, editingTask |-> tasksView.editingTask]

\* the render that follows setTasks, and its persist effect
TasksCommit(next, op, arg) ==
    \E oks \in QuotaOutcomes(1) :
        LET w == setItem(ls, "tasks", StringifyTasks(next.tasks), oks[1])
        IN  /\ tasksView' = [tasksView EXCEPT !.tasks = next.tasks,
                                              !.crashed = w.threw]
            /\ ls' = w.store
            /\ writeFailures' = writeFailures + Count(oks)
            /\ last' = [op |-> op, arg |-> arg, failed |-> w.threw,
                        pre |-> TasksBefore]

TaskInputs ==
    {[title |-> "Read", description |-> "", dueDate |-> "2025-04-12"],
     [title |-> "Write", description |-> "essay", dueDate |-> "2025-04-13"]}

\* the Complete / Undo button of a task
TaskComplete(taskId) ==
    /\ TasksShown
    /\ TasksCommit(handleTaskComplete(tasksView, taskId), "handleTaskComplete", taskId)
    /\ UNCHANGED <<view, now, nextId, notTasks>>

\* the New Task button
NewTask ==
    /\ TasksShown
    /\ ~tasksView.showForm
    /\ tasksView' = [tasksView EXCEPT !.editingTask = {}, !.showForm = TRUE]
    /\ last' = NoOp
    /\ UNCHANGED <<view, now, ls, nextId, writeFailures, notTasks>>

\* handleEditTask
handleEditTask(task) ==
    /\ TasksShown
    /\ tasksView' = [tasksView EXCEPT !.editingTask = {task}, !.showForm = TRUE]
    /\ tasksView' # tasksView
    /\ last' = NoOp
    /\ UNCHANGED <<view, now, ls, nextId, writeFailures, notTasks>>

\* the onClose of the form
TaskFormClose ==
    /\ TasksShown
    /\ tasksView.showForm
    /\ tasksView' = [tasksView EXCEPT !.editingTask = {}, !.showForm = FALSE]
    /\ last' = NoOp
    /\ UNCHANGED <<view, now, ls, nextId, writeFailures, notTasks>>

\* the onSubmit of the form: editingTask ? handleUpdateTask : handleCreateTask
TaskFormSubmit(taskData) ==
    /\ TasksShown
    /\ tasksView.showForm
    /\ IF tasksView.editingTask # {}
       THEN /\ TasksCommit(handleUpdateTask(tasksView, taskData),
                           "handleUpdateTask", taskData)
            /\ UNCHANGED nextId
       ELSE /\ nextId <= MaxId
            /\ Len(tasksView.tasks) < MaxTasks
            /\ TasksCommit(handleCreateTask(tasksView, taskData, nextId),
                           "handleCreateTask", taskData)
            /\ nextId' = nextId + 1
    /\ UNCHANGED <<view, now, notTasks>>

\* the Delete button of a task
TaskDelete(taskId) ==
    /\ TasksShown
    /\ TasksCommit(handleDeleteTask(tasksView, taskId), "handleDeleteTask", taskId)
    /\ UNCHANGED <<view, now, nextId, notTasks>>

\* the page is loaded again
TasksReload ==
    /\ view = "tasks"
    /\ \E oks \in QuotaOutcomes(1) :
         LET m == TasksMounted(ls, oks[1])
         IN  /\ (~m.wrote => oks[1])
             /\ tasksView' = m.view
             /\ ls' = m.store
             /\ writeFailures' = writeFailures + Count(oks)
             /\ last' = [op |-> "TasksMounted", failed |-> m.failed, pre |-> TasksBefore]
    /\ UNCHANGED <<view, now, nextId, notTasks>>

-----------------------------------------------------------------------------
(* JavaScript numbers: a fraction n/d with d > 0, Infinity or NaN *)

Num(n, d) == [k |-> "num", n |-> n, d |-> d]
NaN == [k |-> "NaN", n |-> 0, d |-> 0]
Infinity == [k |-> "Infinity", n |-> 1, d |-> 0]

\* a / b for a number a >= 0 and an integer b >= 0
Divide(a, b) ==
    IF a.k # "num" THEN a
    ELSE IF b = 0 THEN (IF a.n = 0 THEN NaN ELSE Infinity)
    ELSE Num(a.n, a.d * b)

\* a * b for an integer b > 0
Times(a, b) == IF a.k # "num" THEN a ELSE Num(a.n * b, a.d)

\* Math.min(a, b) for an integer b: NaN if a is NaN
MathMin(a, b) ==
    IF a.k = "NaN" THEN NaN
    ELSE IF a.k = "Infinity" THEN Num(b, 1)
    ELSE IF a.n <= b * a.d THEN a ELSE Num(b, 1)

\* Math.round(a) for a >= 0
MathRound(a) ==
    IF a.k # "num" THEN a ELSE Num((2 * a.n + a.d) \div (2 * a.d), 1)

\* a === b, a > b on numbers (NaN equals nothing and exceeds nothing)
NumEq(a, b) ==
    \/ a.k = "num" /\ b.k = "num" /\ a.n * b.d = b.n * a.d
    \/ a.k = "Infinity" /\ b.k = "Infinity"

NumGt(a, b) ==
    \/ a.k = "num" /\ b.k = "num" /\ a.n * b.d > b.n * a.d
    \/ a.k = "Infinity" /\ b.k = "num"

-----------------------------------------------------------------------------
(* The derived metrics of Subjects, SubjectStats and SubjectManager *)

\* sessions.reduce((acc, s) => acc + s.durationMinutes, 0)
RECURSIVE SumMinutes(_)
SumMinutes(sessions) ==
    IF sessions = <<>> THEN 0
    ELSE Head(sessions).durationMinutes + SumMinutes(Tail(sessions))

\* getWeeklyProgress whose week ends when Saturday begins
getWeeklyProgress_openEnd(studySessions, subjectName, t) ==
    LET weekStart == startOfWeek(t)
        weekEnd == endOfWeek(t) - TicksPerDay
        InWeek(session) ==
            /\ session.subject = subjectName
            /\ DateParse(session.date) >= weekStart
            /\ DateParse(session.date) <= weekEnd
    IN  Divide(Num(SumMinutes(SelectSeq(studySessions, InWeek)), 1), 60)

\* Subjects.getWeeklyProgress(subjectName), called at the instant t
getWeeklyProgress(studySessions, subjectName, t) ==
    LET weekStart == startOfWeek(t)
        weekEnd == endOfWeek(t)
        InWeek(session) ==
            /\ session.subject = subjectName
            /\ DateParse(session.date) >= weekStart
            /\ DateParse(session.date) <= weekEnd
    IN  Divide(Num(SumMinutes(SelectSeq(studySessions, InWeek)), 1), 60)

\* a card of the Subjects page: the hours, the percentage and the bar
SubjectsCard(studySessions, subject, t) ==
    LET weeklyHours == getWeeklyProgress(studySessions, subject.name, t)
        progress == Times(Divide(weeklyHours, subject.goalHoursPerWeek), 100)
    IN  [weeklyHours |-> weeklyHours,
         progress |-> progress,
         width |-> MathMin(progress, 100)]

\* SubjectStats.getFilteredSessions; a month is taken as 30 days
getFilteredSessions(sessions, subject, timeframe, t) ==
    LET OfSubject(s) == s.subject = subject.name
        subjectSessions == SelectSeq(sessions, OfSubject)
        InWeek(s) == /\ DateParse(s.date) >= startOfWeek(t)
                     /\ DateParse(s.date) <= endOfWeek(t)
        InMonth(s) == s.date[1] \div 30 = (t \div TicksPerDay) \div 30
    IN  CASE timeframe = "week" -> SelectSeq(subjectSessions, InWeek)
          [] timeframe = "month" -> SelectSeq(subjectSessions, InMonth)
          [] OTHER -> subjectSessions

\* GoalProgress with the percentage itself limited to 100
GoalProgress_clamped(sessions, subject, timeframe, t) ==
    LET filteredSessions == getFilteredSessions(sessions, subject, timeframe, t)
        totalHours == Divide(Num(SumMinutes(filteredSessions), 1), 60)
        goalProgress ==
            MathMin(Times(Divide(totalHours, subject.goalHoursPerWeek), 100), 100)
    IN  [goalProgress |-> goalProgress,
         shown |-> MathRound(goalProgress),
         width |-> MathMin(goalProgress, 100)]

\* SubjectStats: goalProgress, the number shown and the bar
GoalProgress(sessions, subject, timeframe, t) ==
    LET filteredSessions == getFilteredSessions(sessions, subject, timeframe, t)
        totalMinutes == SumMinutes(filteredSessions)
        totalHours == Divide(Num(totalMinutes, 1), 60)
        goalProgress == Times(Divide(totalHours, subject.goalHoursPerWeek), 100)
    IN  [goalProgress |-> goalProgress,
         shown |-> MathRound(goalProgress),
         width |-> MathMin(goalProgress, 100)]

\* Array.prototype.sort((a, b) => date(b) - date(a)): stable, latest first
RECURSIVE InsertByDate(_, _)
InsertByDate(s, sorted) ==
    IF sorted = <<>> THEN <<s>>
    ELSE IF DateParse(Head(sorted).date) >= DateParse(s.date)
         THEN <<Head(sorted)>> \o InsertByDate(s, Tail(sorted))
         ELSE <<s>> \o sorted

RECURSIVE SortByDateDesc(_, _)
SortByDateDesc(sessions, sorted) ==
    IF sessions = <<>> THEN sorted
    ELSE SortByDateDesc(Tail(sessions), InsertByDate(Head(sessions), sorted))

\* the trend of the sessions in the order they are stored in
trend_unsorted(sessions, subject) ==
    LET OfSubject(s) == s.subject = subject.name
        previousSessions == SelectSeq(sessions, OfSubject)
    IN  IF Len(previousSessions) >= 2
        THEN previousSessions[1].durationMinutes - previousSessions[2].durationMinutes
        ELSE 0

\* the trend taken the other way round: the session before minus the latest
trend_reversed(sessions, subject) ==
    LET OfSubject(s) == s.subject = subject.name
        previousSessions == SortByDateDesc(SelectSeq(sessions, OfSubject), <<>>)
    IN  IF Len(previousSessions) >= 2
        THEN previousSessions[2].durationMinutes - previousSessions[1].durationMinutes
        ELSE 0

\* SubjectStats: trend
trend(sessions, subject) ==
    LET OfSubject(s) == s.subject = subject.name
        previousSessions == SortByDateDesc(SelectSeq(sessions, OfSubject), <<>>)
    IN  IF Len(previousSessions) >= 2
        THEN previousSessions[1].durationMinutes - previousSessions[2].durationMinutes
        ELSE 0

\* a card of SubjectManager: progress is the hours its timer has tracked
ManagerCard(progress, subject) ==
    LET percent == MathMin(Times(Divide(progress, subject.goalHoursPerWeek), 100), 100)
    IN  [percent |-> percent,
         shown |-> MathRound(percent),
         width |-> percent]

-----------------------------------------------------------------------------
(* The same page in a second browser tab.  The tab has its own React state *)
(* and shares localStorage; no storage event is listened to.               *)

notTabB == <<dashboard, subjectsView, manager, toast, tasksView, analytics,
             profileView, metrics, notesView>>

\* a persist effect that keeps the stored records the tab does not hold
PersistTasks_merge(store, tasks, quotaOk) ==
    LET stored == LoadCollection(store, "tasks").value
        Foreign(task) == \A i \in 1..Len(tasks) : tasks[i].id # task.id
    IN  setItem(store, "tasks", StringifyTasks(SelectSeq(stored, Foreign) \o tasks),
                quotaOk)

\* the persist effect of Tasks
PersistTasks(store, tasks, quotaOk) ==
    setItem(store, "tasks", StringifyTasks(tasks), quotaOk)

\* the persist effect of Subjects
PersistSubjects(store, subjects, quotaOk) ==
    setItem(store, "subjects", StringifySubjects(subjects), quotaOk)

TabBShown(page) ==
    /\ view = page
    /\ tabB.mounted /\ ~tabB.crashed

\* the render that follows setTasks in the second tab, and its persist effect
TabBCommitTasks(next, op, uuid) ==
    \E oks \in QuotaOutcomes(1) :
        LET w == PersistTasks(ls, next.tasks, oks[1])
        IN  /\ tabB' = [tabB EXCEPT !.tasks = next.tasks, !.crashed = w.threw]
            /\ ls' = w.store
            /\ writeFailures' = writeFailures + Count(oks)
            /\ last' = [op |-> op, uuid |-> uuid, failed |-> w.threw,
                        pre |-> [tabB |-> tabB.tasks, stored |-> ls["tasks"]]]

\* the render that follows setSubjects in the second tab
TabBCommitSubjects(next, op, uuid) ==
    \E oks \in QuotaOutcomes(1) :
        LET w == PersistSubjects(ls, next.subjects, oks[1])
        IN  /\ tabB' = [tabB EXCEPT !.subjects = next.subjects, !.crashed = w.threw]
            /\ ls' = w.store
            /\ writeFailures' = writeFailures + Count(oks)
            /\ last' = [op |-> op, uuid |-> uuid, failed |-> w.threw,
                        pre |-> [tabB |-> tabB.subjects, stored |-> ls["subjects"]]]

\* the second tab creates a task
TabBCreateTask(taskData) ==
    /\ TabBShown("tasks")
    /\ nextId <= MaxId
    /\ Len(tabB.tasks) < MaxTasks
    /\ TabBCommitTasks(handleCreateTask(tabB, taskData, nextId),
                       "tabB.handleCreateTask", nextId)
    /\ nextId' = nextId + 1
    /\ UNCHANGED <<view, now, notTabB>>

\* the second tab toggles a task
TabBTaskComplete(taskId) ==
    /\ TabBShown("tasks")
    /\ TabBCommitTasks(handleTaskComplete(tabB, taskId), "tabB.handleTaskComplete", 0)
    /\ UNCHANGED <<view, now, nextId, notTabB>>

\* the second tab deletes a task
TabBDeleteTask(taskId) ==
    /\ TabBShown("tasks")
    /\ TabBCommitTasks(handleDeleteTask(tabB, taskId), "tabB.handleDeleteTask", 0)
    /\ UNCHANGED <<view, now, nextId, notTabB>>

\* the second tab adds a subject
TabBAddSubject(formData) ==
    /\ TabBShown("subjects")
    /\ formData.name # ""
    /\ nextId <= MaxId
    /\ Len(tabB.subjects) < MaxSubjects
    /\ TabBCommitSubjects(handleAddSubject(tabB, formData, nextId),
                          "tabB.handleAddSubject", nextId)
    /\ nextId' = nextId + 1
    /\ UNCHANGED <<view, now, notTabB>>

\* the second tab deletes a subject
TabBDeleteSubject(id) ==
    /\ TabBShown("subjects")
    /\ TabBCommitSubjects(handleDeleteSubject(tabB, id), "tabB.handleDeleteSubject", 0)
    /\ UNCHANGED <<view, now, nextId, notTabB>>

\* the second tab is loaded again
TabBReload ==
    /\ view \in {"tasks", "subjects"}
    /\ tabB.mounted
    /\ \E oks \in QuotaOutcomes(1) :
         LET m == IF view = "tasks" THEN TasksMounted(ls, oks[1])
                                    ELSE SubjectsMounted(ls, oks[1])
         IN  /\ (~m.wrote => oks[1])
             /\ tabB' = m.view
             /\ tabB' # tabB
             /\ ls' = m.store
             /\ writeFailures' = writeFailures + Count(oks)
             /\ last' = [op |-> "tabB.mounted", failed |-> m.failed]
    /\ UNCHANGED <<view, now, nextId, notTabB>>

\* loadData() of a Dashboard in the second tab resolves
TabBLoadData ==
    /\ view = "dashboard"
    /\ tabB.mounted /\ tabB.isLoading
    /\ \E oks \in QuotaOutcomes(2) :
         LET d == [tabB EXCEPT !.subjects = tabB.loading.subjects,
                               !.studyTime = tabB.loading.studyTime,
                               !.streak = tabB.loading.streak,
                               !.isLoading = FALSE]
             w == DashboardPersist(d, ls, oks[1], oks[2])
         IN  /\ tabB' = d
             /\ ls' = w.store
             /\ writeFailures' = writeFailures + Count(oks)
             /\ last' = [op |-> "tabB.loadData", failed |-> w.failed,
                         pre |-> [tabB |-> tabB, ls |-> ls]]
    /\ UNCHANGED <<view, now, nextId, notTabB>>

\* handleStudySessionComplete of the Dashboard in the second tab
TabBStudySessionComplete(minutes) ==
    /\ view = "dashboard"
    /\ tabB.mounted /\ ~tabB.isLoading /\ tabB.error = NoError
    /\ ~InvalidDuration(minutes)
    /\ Len(tabB.studyTime) < MaxSessions
    /\ \E oks \in QuotaOutcomes(2) :
         LET newSession ==
                 [id |-> nextId,
                  date |-> toISOString(now),
                  durationMinutes |-> minutes,
                  subject |-> IF tabB.selectedSubject = ""
                              THEN "General"
                              ELSE tabB.selectedSubject]
             d == [tabB EXCEPT
                      !.studyTime = Append(tabB.studyTime, newSession),
                      !.streak = StreakAfterSession(tabB.streak, now),
                      !.selectedSubject = ""]
             w == DashboardPersist(d, ls, oks[1], oks[2])
         IN  /\ tabB' = d
             /\ ls' = w.store
             /\ writeFailures' = writeFailures + Count(oks)
             /\ last' = [op |-> "tabB.handleStudySessionComplete",
                         minutes |-> minutes, failed |-> w.failed,
                         pre |-> [tabB |-> tabB, ls |-> ls]]
    /\ nextId' = nextId + 1
    /\ UNCHANGED <<view, now, notTabB>>

-----------------------------------------------------------------------------
(* Analytics (pages/Analytics) *)

\* the content string of getStudySessions, by its two interpolated parts
Content(session) == [subject |-> session.subject, duration |-> session.durationMinutes]

\* content.match(/Duration: (\d+) minutes/): digits only
DurationMatch(content) == content.duration \in Nat

\* content.match(/Subject: (.+?)(?:\n|$)/): at least one character
SubjectMatch(content) == content.subject # ""

\* getStudySessions(): rejects when JSON.parse throws
getStudySessions(store, t) ==
    LET raw == getItem(store, "studyTime")
    IN  IF ~Truthy(raw)
        THEN [rejected |-> FALSE, value |-> <<>>]
        ELSE IF JSON_parse(raw).threw
             THEN [rejected |-> TRUE, value |-> <<>>]
             ELSE LET parsed == JSON_parse(raw).value
                  IN  [rejected |-> FALSE,
                       value |-> [i \in 1..Len(parsed) |->
                                    [content |-> Content(parsed[i]),
                                     created_at |-> parsed[i].date]]]

\* format(date, 'yyyy-MM-dd') of an instant: its day
FormatDay(t) == t \div TicksPerDay

\* the sessions as loadStudySessions transforms them
TransformedSessions(sessions) ==
    [i \in 1..Len(sessions) |->
        [date |-> FormatDay(DateParse(sessions[i].created_at)),
         durationMinutes |-> IF DurationMatch(sessions[i].content)
                             THEN sessions[i].content.duration ELSE 0,
         subject |-> IF SubjectMatch(sessions[i].content)
                     THEN sessions[i].content.subject ELSE "Unknown"]]

\* subDays(date, i)
subDays(t, i) == t - i * MsPerDay

\* the minutes of the sessions whose date is the string dateStr
MinutesOn(studyTime, dateStr) ==
    SumMinutes(SelectSeq(studyTime, LAMBDA session : session.date = dateStr))

\* the histogram without the final reverse(): today first
last7Days_newestFirst(studyTime, t) ==
    [j \in 1..7 |->
        [date |-> FormatDay(subDays(t, j - 1)),
         minutes |-> MinutesOn(studyTime, FormatDay(subDays(t, j - 1)))]]

\* last7Days: Array.from({ length: 7 }, (_, i) => ...).reverse(); entry j of
\* the result is the entry of i = 7 - j
last7Days(studyTime, t) ==
    [j \in 1..7 |->
        [date |-> FormatDay(subDays(t, 7 - j)),
         minutes |-> MinutesOn(studyTime, FormatDay(subDays(t, 7 - j)))]]

\* the first render of Analytics, loadStudySessions() started
AnalyticsMounted(store, t) ==
    [mounted |-> TRUE,
     studyTime |-> <<>>,
     last7Days |-> last7Days(<<>>, t),
     isLoading |-> TRUE,
     error |-> NoError,
     toastError |-> FALSE,
     loading |-> getStudySessions(store, t)]

\* loadStudySessions() resolves
loadStudySessions ==
    /\ view = "analytics"
    /\ analytics.mounted /\ analytics.isLoading
    /\ analytics' =
         IF analytics.loading.rejected
         THEN [analytics EXCEPT
                 !.error = "Failed to load study data. Please try refreshing the page.",
                 !.toastError = TRUE,
                 !.isLoading = FALSE]
         ELSE [analytics EXCEPT
                 !.studyTime = TransformedSessions(analytics.loading.value),
                 !.last7Days =
                     last7Days(TransformedSessions(analytics.loading.value), now),
                 !.isLoading = FALSE]
    /\ last' = [op |-> "loadStudySessions"]
    /\ UNCHANGED <<view, now, ls, nextId, writeFailures, notAnalytics>>

\* the page is loaded again, or the Retry button of the error screen
AnalyticsReload ==
    /\ view = "analytics"
    /\ analytics' = AnalyticsMounted(ls, now)
    /\ last' = NoOp
    /\ UNCHANGED <<view, now, ls, nextId, writeFailures, notAnalytics>>

-----------------------------------------------------------------------------
(* Notes Hub (pages/AiAssistant): notes are kept in memory only *)

notNotes == <<dashboard, subjectsView, manager, toast, tasksView, analytics,
              profileView, tabB, metrics>>

\* the first render of NotesHub
NotesMounted == [mounted |-> TRUE, notes |-> <<>>, editingId |-> 0]

\* what a text field can hold
TextInputs == {"", " ", "a", "b"}

\* addNote, with what the title and content fields hold
addNote(title, content) ==
    /\ view = "notes"
    /\ notesView.mounted
    /\ IF trim(title) = "" \/ trim(content) = ""
       THEN UNCHANGED <<notesView, nextId>>
       ELSE /\ Len(notesView.notes) < MaxNotes
            /\ nextId <= MaxId
            /\ notesView' = [notesView EXCEPT !.notes =
                   <<[id |-> nextId, title |-> title, content |-> content,
                      lastUpdated |-> now]>> \o @]
            /\ nextId' = nextId + 1
    /\ last' = [op |-> "addNote", title |-> title, content |-> content,
                pre |-> notesView]
    /\ UNCHANGED <<view, now, ls, writeFailures, notNotes>>

\* deleteNote
deleteNote(id) ==
    /\ view = "notes"
    /\ notesView.mounted
    /\ notesView' = [notesView EXCEPT
                        !.notes = SelectSeq(@, LAMBDA note : note.id # id)]
    /\ last' = [op |-> "deleteNote", pre |-> notesView]
    /\ UNCHANGED <<view, now, ls, nextId, writeFailures, notNotes>>

\* clearAllNotes: the button is shown when there are notes
clearAllNotes ==
    /\ view = "notes"
    /\ notesView.mounted /\ Len(notesView.notes) > 0
    /\ notesView' = [notesView EXCEPT !.notes = <<>>]
    /\ last' = [op |-> "clearAllNotes", pre |-> notesView]
    /\ UNCHANGED <<view, now, ls, nextId, writeFailures, notNotes>>

\* startEditing
startEditing(id) ==
    /\ view = "notes"
    /\ notesView.mounted
    /\ notesView.editingId # id
    /\ notesView' = [notesView EXCEPT !.editingId = id]
    /\ last' = NoOp
    /\ UNCHANGED <<view, now, ls, nextId, writeFailures, notNotes>>

\* cancelEditing
cancelEditing ==
    /\ view = "notes"
    /\ notesView.mounted
    /\ notesView.editingId # 0
    /\ notesView' = [notesView EXCEPT !.editingId = 0]
    /\ last' = NoOp
    /\ UNCHANGED <<view, now, ls, nextId, writeFailures, notNotes>>

\* saveEdit(id) of the note being edited, with what the edit fields hold
saveEdit(editTitle, editContent) ==
    /\ view = "notes"
    /\ notesView.mounted
    /\ notesView.editingId # 0
    /\ IF trim(editTitle) = "" \/ trim(editContent) = ""
       THEN UNCHANGED notesView
       ELSE notesView' =
              [notesView EXCEPT
                  !.notes = [i \in 1..Len(@) |->
                               IF @[i].id = notesView.editingId
                               THEN [@[i] EXCEPT !.title = editTitle,
                                                 !.content = editContent,
                                                 !.lastUpdated = now]
                               ELSE @[i]],
                  !.editingId = 0]
    /\ last' = [op |-> "saveEdit", title |-> editTitle, content |-> editContent,
                pre |-> notesView]
    /\ UNCHANGED <<view, now, ls, nextId, writeFailures, notNotes>>

-----------------------------------------------------------------------------
(* Sample records that an earlier run of the application left in storage *)

SampleSubject ==
    [id |-> 1, name |-> "Math", description |-> "", color |-> "#FF6B6B",
     goalHoursPerWeek |-> 5]

EmptyStorage == [k \in Keys |-> Null]

-----------------------------------------------------------------------------
(* The Dashboard alone *)

\* the storage after a first session whose write of 'studyTime' failed while
\* the write of 'streak' succeeded
StreakOnlyStorage ==
    [EmptyStorage EXCEPT
        !["studyTime"] = StringifySessions(<<>>),
        !["streak"] = Text(StringifyStreak([currentStreak |-> 1, bestStreak |-> 1,
                                            lastStudyDate |-> toISOString(0)]))]

InitDash ==
    /\ view = "dashboard"
    /\ now = 0
    /\ nextId = 1
    /\ ls \in {EmptyStorage,
               [EmptyStorage EXCEPT !["subjects"] = StringifySubjects(<<SampleSubject>>)],
               StreakOnlyStorage}
    /\ dashboard = DashboardMounted(ls, now)
    /\ subjectsView = Unmounted /\ manager = Unmounted /\ toast = NoToast
    /\ tasksView = Unmounted /\ analytics = Unmounted /\ profileView = Unmounted
    /\ last = NoOp
    /\ writeFailures = 0
    /\ tabB = Unmounted /\ metrics = Unmounted /\ notesView = Unmounted

NextDash ==
    \/ loadData
    \/ \E minutes \in MinutesInputs : handleStudySessionComplete(minutes)
    \/ setSelectedSubject
    \/ DashboardReload
    \/ Tick

SpecDash == InitDash /\ [][NextDash]_vars

-----------------------------------------------------------------------------
(* The Subjects page alone *)

SampleSession ==
    [id |-> 1, date |-> toISOString(1), durationMinutes |-> 25, subject |-> "Math"]

SubjectsStores ==
    {[EmptyStorage EXCEPT !["subjects"] = a, !["studyTime"] = b] :
        a \in {Null, Corrupt},
        b \in {Null, Corrupt, StringifySessions(<<SampleSession>>)}}

InitSubjects ==
    /\ view = "subjects"
    /\ now = 0
    /\ nextId = 1
    /\ \E store \in SubjectsStores :
         /\ subjectsView = SubjectsMounted(store, TRUE).view
         /\ ls = SubjectsMounted(store, TRUE).store
    /\ manager = Unmounted /\ toast = NoToast
    /\ dashboard = Unmounted /\ profileView = Unmounted
    /\ tasksView = Unmounted /\ analytics = Unmounted
    /\ last = NoOp
    /\ writeFailures = 0
    /\ tabB = Unmounted /\ metrics = Unmounted /\ notesView = Unmounted

\* the subjects whose cards the modal shows
SubjectIds == IF subjectsView.mounted THEN Ids(subjectsView.subjects) ELSE {}

NextSubjects ==
    \/ setShowManager
    \/ \E formData \in FormInputs : handleSubmit(formData)
    \/ \E id \in SubjectIds : handleEdit(id)
    \/ \E id \in SubjectIds : handleDelete(id)
    \/ \E id \in SubjectIds : toggleSubjectSelection(id)
    \/ toggleSelectAll
    \/ handleBulkDelete
    \/ handleUndoBulkDelete
    \/ ToastDismiss
    \/ SubjectsReload

SpecSubjects == InitSubjects /\ [][NextSubjects]_vars

-----------------------------------------------------------------------------
(* The Tasks page alone *)

TasksStores ==
    {[EmptyStorage EXCEPT !["tasks"] = a] : a \in {Null, Corrupt}}

InitTasks ==
    /\ view = "tasks"
    /\ now = 0
    /\ nextId = 1
    /\ \E store \in TasksStores :
         /\ tasksView = TasksMounted(store, TRUE).view
         /\ ls = TasksMounted(store, TRUE).store
    /\ subjectsView = Unmounted /\ manager = Unmounted /\ toast = NoToast
    /\ dashboard = Unmounted /\ profileView = Unmounted
    /\ analytics = Unmounted
    /\ last = NoOp
    /\ writeFailures = 0
    /\ tabB = Unmounted /\ metrics = Unmounted /\ notesView = Unmounted

\* the tasks the list shows
TaskIds == IF tasksView.mounted THEN Ids(tasksView.tasks) ELSE {}

NextTasks ==
    \/ \E id \in TaskIds : TaskComplete(id)
    \/ NewTask
    \/ \E id \in TaskIds : \E i \in 1..Len(tasksView.tasks) :
          tasksView.tasks[i].id = id /\ handleEditTask(tasksView.tasks[i])
    \/ TaskFormClose
    \/ \E taskData \in TaskInputs : TaskFormSubmit(taskData)
    \/ \E id \in TaskIds : TaskDelete(id)
    \/ TasksReload

SpecTasks == InitTasks /\ [][NextTasks]_vars

-----------------------------------------------------------------------------
(* The Analytics page alone *)

\* the sessions the Dashboard can have saved: one or two, of 30 or 20
\* minutes, the second not earlier than the first
AnalyticsSessionLists ==
    {<<[id |-> 1, date |-> toISOString(t1), durationMinutes |-> 30,
        subject |-> "Math"]>> : t1 \in 0..MaxNow}
    \cup {<<[id |-> 1, date |-> toISOString(t1), durationMinutes |-> 30,
             subject |-> "Math"],
            [id |-> 2, date |-> toISOString(t2), durationMinutes |-> 20,
             subject |-> "Math"]>> :
             t1 \in 0..MaxNow, t2 \in 0..MaxNow}

AnalyticsStores ==
    {[EmptyStorage EXCEPT !["studyTime"] = a] :
        a \in {Null, Corrupt, StringifySessions(<<SampleSession>>)}
              \cup {StringifySessions(list) :
                       list \in {l \in AnalyticsSessionLists :
                                  \A i \in 1..(Len(l) - 1) :
                                     DateParse(l[i].date) <= DateParse(l[i + 1].date)}}}

InitAnalytics ==
    /\ view = "analytics"
    /\ now \in 0..MaxNow
    /\ nextId = 1
    /\ ls \in AnalyticsStores
    /\ analytics = AnalyticsMounted(ls, now)
    /\ subjectsView = Unmounted /\ manager = Unmounted /\ toast = NoToast
    /\ dashboard = Unmounted /\ profileView = Unmounted
    /\ tasksView = Unmounted
    /\ last = NoOp
    /\ writeFailures = 0
    /\ tabB = Unmounted /\ metrics = Unmounted /\ notesView = Unmounted

NextAnalytics ==
    \/ loadStudySessions
    \/ AnalyticsReload
    \/ Tick

SpecAnalytics == InitAnalytics /\ [][NextAnalytics]_vars

-----------------------------------------------------------------------------
(* The Profile page alone *)

SampleProfile == [defaultProfile EXCEPT !.name = "Bob", !.bio = "hi"]

InitProfile ==
    /\ view = "profile"
    /\ now = 0
    /\ nextId = 1
    /\ ls \in {[EmptyStorage EXCEPT !["profile"] = item] :
                 item \in {Null, EmptyText, Corrupt, StringifyProfile(SampleProfile)}}
    /\ profileView = ProfileMounted(ls)
    /\ dashboard = Unmounted
    /\ subjectsView = Unmounted /\ manager = Unmounted /\ toast = NoToast
    /\ tasksView = Unmounted /\ analytics = Unmounted
    /\ last = NoOp
    /\ writeFailures = 0
    /\ tabB = Unmounted /\ metrics = Unmounted /\ notesView = Unmounted

NextProfile ==
    \/ loadProfile
    \/ setIsEditing
    \/ \E name \in NameInputs : handleProfileChange(name)
    \/ \E notifications \in BOOLEAN : handleStudyPrefChange(notifications)
    \/ \E newAchievement \in AchievementInputs : addAchievement(newAchievement)
    \/ \E index \in 1..MaxAchievements : removeAchievement(index)
    \/ handleSaveChanges
    \/ handleCancelEdit
    \/ ProfileReload

SpecProfile == InitProfile /\ [][NextProfile]_vars

-----------------------------------------------------------------------------
(* The Profile page while an avatar file is read *)

InitAvatar ==
    /\ InitProfile
    /\ ls["profile"] \in {Null, StringifyProfile(SampleProfile)}

NextAvatar ==
    \/ loadProfile
    \/ setIsEditing
    \/ \E name \in NameInputs : handleProfileChange(name)
    \/ \E notifications \in BOOLEAN : handleStudyPrefChange(notifications)
    \/ \E newAchievement \in AchievementInputs : addAchievement(newAchievement)
    \/ handleAvatarChange
    \/ onloadend
    \/ handleSaveChanges
    \/ handleCancelEdit

SpecAvatar == InitAvatar /\ [][NextAvatar]_vars

-----------------------------------------------------------------------------
(* Two tabs that loaded the same page over the same storage *)

SampleTask ==
    [title |-> "Read", description |-> "", dueDate |-> "2025-04-12",
     id |-> 1, completed |-> FALSE]

InitTabs ==
    /\ now = 0
    /\ nextId = 2
    /\ \/ /\ view = "tasks"
          /\ ls \in {EmptyStorage,
                     [EmptyStorage EXCEPT !["tasks"] = StringifyTasks(<<SampleTask>>)]}
          /\ tasksView = TasksMounted(ls, TRUE).view
          /\ tabB = TasksMounted(ls, TRUE).view
          /\ subjectsView = Unmounted
       \/ /\ view = "subjects"
          /\ ls \in {EmptyStorage,
                     [EmptyStorage EXCEPT
                         !["subjects"] = StringifySubjects(<<SampleSubject>>)]}
          /\ subjectsView = SubjectsMounted(ls, TRUE).view
          /\ tabB = SubjectsMounted(ls, TRUE).view
          /\ tasksView = Unmounted
    /\ manager = Unmounted /\ toast = NoToast
    /\ dashboard = Unmounted /\ profileView = Unmounted /\ analytics = Unmounted
    /\ metrics = Unmounted /\ notesView = Unmounted
    /\ last = NoOp
    /\ writeFailures = 0

\* the records the second tab shows
TabBTaskIds == IF tabB.mounted /\ view = "tasks" THEN Ids(tabB.tasks) ELSE {}

TabBSubjectIds == IF tabB.mounted /\ view = "subjects" THEN Ids(tabB.subjects) ELSE {}

NextTabs ==
    \/ NewTask
    \/ \E taskData \in TaskInputs : TaskFormSubmit(taskData)
    \/ \E id \in TaskIds : TaskComplete(id)
    \/ \E id \in TaskIds : TaskDelete(id)
    \/ setShowManager
    \/ \E formData \in FormInputs : handleSubmit(formData)
    \/ \E id \in SubjectIds : handleDelete(id)
    \/ \E taskData \in TaskInputs : TabBCreateTask(taskData)
    \/ \E id \in TabBTaskIds : TabBTaskComplete(id)
    \/ \E id \in TabBTaskIds : TabBDeleteTask(id)
    \/ \E formData \in FormInputs : TabBAddSubject(formData)
    \/ \E id \in TabBSubjectIds : TabBDeleteSubject(id)
    \/ TabBReload

SpecTabs == InitTabs /\ [][NextTabs]_vars

-----------------------------------------------------------------------------
(* Two tabs that loaded the Dashboard over the same storage *)

InitDashTabs ==
    /\ view = "dashboard"
    /\ now \in {0, TicksPerDay}
    /\ nextId = 1
    /\ ls = EmptyStorage
    /\ dashboard = DashboardMounted(ls, now)
    /\ tabB = DashboardMounted(ls, now)
    /\ subjectsView = Unmounted /\ manager = Unmounted /\ toast = NoToast
    /\ tasksView = Unmounted /\ analytics = Unmounted /\ profileView = Unmounted
    /\ metrics = Unmounted /\ notesView = Unmounted
    /\ last = NoOp
    /\ writeFailures = 0

NextDashTabs ==
    \/ loadData
    \/ \E minutes \in MinutesInputs : handleStudySessionComplete(minutes)
    \/ TabBLoadData
    \/ \E minutes \in MinutesInputs : TabBStudySessionComplete(minutes)

SpecDashTabs == InitDashTabs /\ [][NextDashTabs]_vars

-----------------------------------------------------------------------------
(* The derived metrics, computed from any sessions at any instant *)

SubjectNames == {"Math", "Art"}

DurationInputs == {60, 90}

SessionInputs ==
    [date : {toISOString(t) : t \in 0..MaxNow},
     durationMinutes : DurationInputs,
     subject : SubjectNames]

\* the lists of at most MaxSessions sessions
SessionLists ==
    UNION {[1..n -> SessionInputs] : n \in 0..MaxSessions}

GoalInputs == {0, 1, 2}

SubjectInputs ==
    {[name |-> "Math", color |-> COLORS[1], goalHoursPerWeek |-> g] : g \in GoalInputs}

\* the hours a timer of SubjectManager has tracked
ProgressInputs == {Num(0, 1), Num(1, 1), Num(3, 1)}

InitMetrics ==
    /\ view = "metrics"
    /\ now \in 0..MaxNow
    /\ nextId = 1
    /\ ls = EmptyStorage
    /\ metrics \in {[mounted |-> TRUE, sessions |-> list] : list \in SessionLists}
    /\ dashboard = Unmounted /\ subjectsView = Unmounted /\ manager = Unmounted
    /\ toast = NoToast /\ tasksView = Unmounted /\ analytics = Unmounted
    /\ profileView = Unmounted /\ tabB = Unmounted /\ notesView = Unmounted
    /\ last = NoOp
    /\ writeFailures = 0

\* Subjects renders the card of a subject
RenderSubjects(subject) ==
    /\ view = "metrics"
    /\ last' = [op |-> "Subjects.render", subject |-> subject,
                hours |-> [name \in SubjectNames |->
                              getWeeklyProgress(metrics.sessions, name, now)],
                card |-> SubjectsCard(metrics.sessions, subject, now)]
    /\ UNCHANGED <<view, now, ls, nextId, writeFailures, pages>>

\* SubjectStats renders with a timeframe selected
RenderSubjectStats(subject, timeframe) ==
    /\ view = "metrics"
    /\ last' = [op |-> "SubjectStats.render", subject |-> subject,
                timeframe |-> timeframe,
                stats |-> GoalProgress(metrics.sessions, subject, timeframe, now),
                trend |-> trend(metrics.sessions, subject)]
    /\ UNCHANGED <<view, now, ls, nextId, writeFailures, pages>>

\* SubjectManager renders the card of a subject
RenderManager(subject, progress) ==
    /\ view = "metrics"
    /\ last' = [op |-> "SubjectManager.render", subject |-> subject,
                progress |-> progress,
                card |-> ManagerCard(progress, subject)]
    /\ UNCHANGED <<view, now, ls, nextId, writeFailures, pages>>

NextMetrics ==
    \/ \E subject \in SubjectInputs : RenderSubjects(subject)
    \/ \E subject \in SubjectInputs, timeframe \in {"week", "month", "all"} :
          RenderSubjectStats(subject, timeframe)
    \/ \E subject \in SubjectInputs, progress \in ProgressInputs :
          RenderManager(subject, progress)

SpecMetrics == InitMetrics /\ [][NextMetrics]_vars

-----------------------------------------------------------------------------
(* The Notes Hub alone *)

InitNotes ==
    /\ view = "notes"
    /\ now = 0
    /\ nextId = 1
    /\ ls = EmptyStorage
    /\ notesView = NotesMounted
    /\ dashboard = Unmounted /\ subjectsView = Unmounted /\ manager = Unmounted
    /\ toast = NoToast /\ tasksView = Unmounted /\ analytics = Unmounted
    /\ profileView = Unmounted /\ tabB = Unmounted /\ metrics = Unmounted
    /\ last = NoOp
    /\ writeFailures = 0

NoteIds == IF notesView.mounted THEN Ids(notesView.notes) ELSE {}

NextNotes ==
    \/ \E title \in TextInputs : \E content \in TextInputs : addNote(title, content)
    \/ \E id \in NoteIds : deleteNote(id)
    \/ clearAllNotes
    \/ \E id \in NoteIds : startEditing(id)
    \/ cancelEditing
    \/ \E editTitle \in TextInputs : \E editContent \in TextInputs :
          saveEdit(editTitle, editContent)

SpecNotes == InitNotes /\ [][NextNotes]_vars

-----------------------------------------------------------------------------
(* The timers of SubjectManager *)

\* two subjects were saved by an earlier run
TimerSubjects ==
    <<SampleSubject, [SampleSubject EXCEPT !.id = 2, !.name = "Art"]>>

InitTimers ==
    /\ view = "subjects"
    /\ now = 0
    /\ nextId = 3
    /\ LET m == SubjectsMounted(
                    [EmptyStorage EXCEPT
                        !["subjects"] = StringifySubjects(TimerSubjects)], TRUE)
       IN  /\ subjectsView = m.view
           /\ ls = m.store
    /\ manager = Unmounted /\ toast = NoToast
    /\ dashboard = Unmounted /\ tasksView = Unmounted /\ analytics = Unmounted
    /\ profileView = Unmounted /\ tabB = Unmounted /\ metrics = Unmounted
    /\ notesView = Unmounted
    /\ last = NoOp
    /\ writeFailures = 0

NextTimers ==
    \/ setShowManager
    \/ forceRender
    \/ \E id \in SubjectIds : handleStart(id)
    \/ \E id \in SubjectIds : handleStop(id)

SpecTimers == InitTimers /\ [][NextTimers]_vars

-----------------------------------------------------------------------------
(* The subject form with a typed weekly goal *)

InitGoal ==
    /\ InitSubjects
    /\ ls["studyTime"] = Null /\ ~subjectsView.crashed

NextGoal ==
    \/ setShowManager
    \/ \E formData \in FormInputs \cup GoalFormInputs : handleSubmit(formData)
    \/ \E id \in SubjectIds : handleEdit(id)
    \/ \E id \in SubjectIds : handleDelete(id)

SpecGoal == InitGoal /\ [][NextGoal]_vars

-----------------------------------------------------------------------------
(* The forms with a required field: the subject form, the notes, the new   *)
(* achievement                                                             *)

\* the subject form with a name of spaces
SpaceNameInputs ==
    {[name |-> " ", description |-> "", color |-> COLORS[1], goalHoursPerWeek |-> 5]}

InitForms ==
    \/ InitSubjects /\ ls["studyTime"] = Null /\ ~subjectsView.crashed
    \/ InitNotes
    \/ InitProfile /\ ls["profile"] = Null

NextForms ==
    \/ setShowManager
    \/ \E formData \in FormInputs \cup SpaceNameInputs : handleSubmit(formData)
    \/ \E id \in SubjectIds : handleEdit(id)
    \/ NextNotes
    \/ loadProfile
    \/ setIsEditing
    \/ \E newAchievement \in AchievementInputs : addAchievement(newAchievement)
    \/ \E index \in 1..MaxAchievements : removeAchievement(index)

SpecForms == InitForms /\ [][NextForms]_vars

-----------------------------------------------------------------------------
(* The application: one page is mounted, over what storage held *)

Init ==
    \/ InitDash
    \/ InitSubjects
    \/ InitTasks
    \/ InitAnalytics
    \/ InitProfile
    \/ InitNotes

Next ==
    \/ NextDash
    \/ NextSubjects
    \/ NextTasks
    \/ NextAnalytics
    \/ NextProfile
    \/ NextNotes

Spec == Init /\ [][Next]_vars

-----------------------------------------------------------------------------
(* Properties of the Dashboard *)

LoadedDashboard == dashboard.mounted /\ ~dashboard.isLoading

SessionCompleted == last.op = "handleStudySessionComplete" /\ last.minutes > 0

\* the sessions that the text under 'studyTime' holds
StoredSessions == LoadCollection(ls, "studyTime").value

\* C1: in every reachable state of the Dashboard streak record,
\* currentStreak <= bestStreak.
C1_CurrentLeBest ==
    dashboard.mounted =>
        dashboard.streak.currentStreak <= dashboard.streak.bestStreak

\* C2: a completed session of positive length updates the streak by the
\* rule: with dayDiff the whole days between today's midnight and the
\* midnight of lastStudyDate, dayDiff <= 1 gives current + 1 and
\* best = max(best, current + 1); otherwise current = 1 and best is kept;
\* in both cases lastStudyDate becomes today.
C2_StreakRule ==
    SessionCompleted =>
        LET old == last.pre.dashboard.streak
            day == now \div TicksPerDay
            dayDiff == day - old.lastStudyDate[1]
        IN  /\ dashboard.streak.lastStudyDate = <<day, 0>>
            /\ dayDiff <= 1 =>
                 /\ dashboard.streak.currentStreak = old.currentStreak + 1
                 /\ dashboard.streak.bestStreak =
                        Max(old.bestStreak, old.currentStreak + 1)
            /\ dayDiff > 1 =>
                 /\ dashboard.streak.currentStreak = 1
                 /\ dashboard.streak.bestStreak = old.bestStreak

\* the example of C2: from {0, 0, D-2} a session today gives {1, 0, today}
\* and a session the next day gives {2, 2, tomorrow}
C2_Witness ==
    /\ SessionCompleted
    /\ last.pre.dashboard.streak =
          [currentStreak |-> 1, bestStreak |-> 0, lastStudyDate |-> <<2, 0>>]
    /\ dashboard.streak =
          [currentStreak |-> 2, bestStreak |-> 2, lastStudyDate |-> <<3, 0>>]

\* C3: a session of minutes <= 0 is rejected before anything is stored:
\* the Dashboard's state and the storage are what they were, and every
\* session the Dashboard holds or has stored has durationMinutes > 0.
C3_NonPositiveRejected ==
    /\ (last.op = "handleStudySessionComplete" /\ last.minutes <= 0) =>
          /\ dashboard = last.pre.dashboard
          /\ ls = last.pre.ls
    /\ dashboard.mounted =>
          \A i \in 1..Len(dashboard.studyTime) :
              dashboard.studyTime[i].durationMinutes > 0
    /\ \A i \in 1..Len(StoredSessions) : StoredSessions[i].durationMinutes > 0

C3_Witness ==
    /\ last.op = "handleStudySessionComplete" /\ last.minutes = 0
    /\ Len(dashboard.studyTime) > 0
    /\ Len(StoredSessions) > 0

SubjectMutations ==
    {"handleAddSubject", "handleEditSubject", "handleDeleteSubject",
     "handleBulkDelete", "handleUndoBulkDelete"}

TaskMutations ==
    {"handleCreateTask", "handleUpdateTask", "handleTaskComplete", "handleDeleteTask"}

\* C7: when the write that persists a mutation fails, the in-memory state
\* equals what it was before the attempted mutation: the Dashboard holds
\* neither the new session nor the advanced streak, and Subjects and Tasks
\* still show the collection they showed before.
C7_NoPartialCommit ==
    /\ (SessionCompleted /\ last.failed # {}) =>
          /\ dashboard.studyTime = last.pre.dashboard.studyTime
          /\ dashboard.streak = last.pre.dashboard.streak
    /\ (view = "subjects" /\ last.op \in SubjectMutations /\ last.failed) =>
          /\ ~subjectsView.crashed
          /\ subjectsView.subjects = last.pre.subjects
    /\ (view = "tasks" /\ last.op \in TaskMutations /\ last.failed) =>
          /\ ~tasksView.crashed
          /\ tasksView.tasks = last.pre.tasks

-----------------------------------------------------------------------------
(* Properties of the storage functions and of Profile *)

\* C4: storage.get never rejects; it gives the parsed stored value when the
\* key holds JSON, and the caller's default when the key is absent or its
\* text cannot be parsed.  Profile, which loads through it, never enters its
\* error state.
C4_GetNeverThrows ==
    /\ \A k \in Keys :
         LET r == storage_get(ls, k, defaultProfile)
         IN  /\ ~r.rejected
             /\ ls[k].t = "text" => r.value = JSONValue(ls[k].json)
             /\ ls[k].t # "text" => r.value = defaultProfile
    /\ profileView.mounted => profileView.error = NoError
    /\ last.op \in {"loadProfile", "handleCancelEdit"} =>
         profileView.profile =
            IF ls["profile"].t = "text"
            THEN JSONValue(ls["profile"].json)
            ELSE defaultProfile

C4_Witness ==
    /\ last.op = "loadProfile"
    /\ ls["profile"] = Corrupt
    /\ profileView.profile = defaultProfile

\* C6: a failed write is reported and not retried: storage.set makes one
\* write attempt and rejects when it fails; saveProfile returns false, and
\* Profile stays in editing mode, exactly when the write failed.
C6_SaveReportsFailure ==
    last.op = "handleSaveChanges" =>
        /\ last.attempts = 1
        /\ last.rejected = ~last.quotaOk
        /\ last.result = last.quotaOk
        /\ last.quotaOk =>
             /\ ls["profile"] = StringifyProfile(last.pre.profileView.profile)
             /\ ~profileView.isEditing
        /\ ~last.quotaOk =>
             /\ ls = last.pre.ls
             /\ profileView.isEditing

C6_Witness ==
    /\ last.op = "handleSaveChanges"
    /\ ~last.quotaOk /\ ~last.result
    /\ profileView.isEditing
    /\ profileView.profile.name = "Ann"

-----------------------------------------------------------------------------
(* Properties of the collections *)

\* C5: when 'subjects', 'tasks' or 'studyTime' holds a text that cannot be
\* parsed, every page that loads it (Subjects, Tasks, Analytics) goes on
\* with the empty collection: none throws, enters an error state or shows a
\* failure message.
C5_CorruptLoadsDefault ==
    /\ (subjectsView.mounted
          /\ (ls["subjects"] = Corrupt \/ ls["studyTime"] = Corrupt)) =>
          /\ ~subjectsView.crashed
          /\ ls["subjects"] = Corrupt => subjectsView.subjects = <<>>
          /\ ls["studyTime"] = Corrupt => subjectsView.studySessions = <<>>
    /\ (tasksView.mounted /\ ls["tasks"] = Corrupt) =>
          /\ ~tasksView.crashed
          /\ tasksView.tasks = <<>>
    /\ (analytics.mounted /\ ~analytics.isLoading /\ ls["studyTime"] = Corrupt) =>
          /\ analytics.error = NoError
          /\ ~analytics.toastError
          /\ analytics.studyTime = <<>>

\* C8: after handleDeleteSubject, alone or in a bulk delete, the sessions in
\* memory and the text under 'studyTime' are what they were before.
C8_DeleteKeepsSessions ==
    last.op \in {"handleDeleteSubject", "handleBulkDelete"} =>
        /\ subjectsView.studySessions = last.pre.studySessions
        /\ ls["studyTime"] = last.pre.studyTime

HasName(list, name) == \E i \in 1..Len(list) : list[i].name = name

\* a bulk delete took the subject Math away, and the session of Math stays
C8_Witness ==
    /\ last.op = "handleBulkDelete"
    /\ HasName(last.pre.subjects, "Math")
    /\ ~HasName(subjectsView.subjects, "Math")
    /\ \E i \in 1..Len(subjectsView.studySessions) :
          subjectsView.studySessions[i].subject = "Math"
    /\ ls["studyTime"] = StringifySessions(subjectsView.studySessions)

Unique(list) ==
    \A i, j \in 1..Len(list) : i # j => list[i].id # list[j].id

Stored(key) == LoadCollection(ls, key).value

\* C9: after any sequence of operations on subjects, tasks and sessions,
\* with randomUUID fresh on every call, no two records of a collection share
\* an identifier, in memory or in storage.
C9_UniqueIds ==
    /\ subjectsView.mounted => Unique(subjectsView.subjects)
    /\ tasksView.mounted => Unique(tasksView.tasks)
    /\ dashboard.mounted => Unique(dashboard.studyTime)
    /\ \A key \in {"subjects", "tasks", "studyTime"} : Unique(Stored(key))

\* an Undo has put a subject back beside another one
C9_Witness ==
    /\ last.op = "handleUndoBulkDelete"
    /\ Len(subjectsView.subjects) >= 2
    /\ Len(last.pre.subjects) < Len(subjectsView.subjects)

\* C10: the subjects written under 'subjects' load again as the same
\* subjects in the same order with the same fields; the empty collection is
\* stored as a text and loads as the empty sequence.
C10_RoundTrip ==
    (subjectsView.mounted /\ ~subjectsView.crashed) =>
        /\ ~LoadCollection(ls, "subjects").threw
        /\ LoadCollection(ls, "subjects").value = subjectsView.subjects
        /\ ls["subjects"].t = "text"
        /\ subjectsView.subjects = <<>> => ls["subjects"] = Text(JArr(<<>>))

\* two subjects were written and the page, loaded again, holds both
C10_Witness ==
    /\ last.op = "SubjectsMounted"
    /\ ~subjectsView.crashed
    /\ Len(subjectsView.subjects) = 2
    /\ subjectsView.subjects = last.pre.subjects

-----------------------------------------------------------------------------
(* Properties of two tabs *)

TabBMutations ==
    {"tabB.handleCreateTask", "tabB.handleTaskComplete", "tabB.handleDeleteTask",
     "tabB.handleAddSubject", "tabB.handleDeleteSubject"}

\* the collection of the page under its key
TabKey == IF view = "tasks" THEN "tasks" ELSE "subjects"

TabACollection == IF view = "tasks" THEN tasksView.tasks ELSE subjectsView.subjects

TabBCollection == IF view = "tasks" THEN tabB.tasks ELSE tabB.subjects

StringifyCollection(list) ==
    IF view = "tasks" THEN StringifyTasks(list) ELSE StringifySubjects(list)

\* C11: two tabs write without coordination and the last write wins: after a
\* tab has persisted a mutation the stored value is that tab's collection
\* exactly, made of the tab's earlier snapshot and its own mutation only;
\* what the other tab had persisted in between is not merged in.
C11_LastWriteWins ==
    /\ (last.op \in TabBMutations /\ ~last.failed) =>
          /\ ls[TabKey] = StringifyCollection(TabBCollection)
          /\ Ids(Stored(TabKey)) \subseteq Ids(last.pre.tabB) \cup {last.uuid}
    /\ (tabB.mounted /\ last.op \in SubjectMutations \cup TaskMutations
          /\ ~last.failed) =>
          ls[TabKey] = StringifyCollection(TabACollection)

\* tab A had persisted a record made after tab B's snapshot; tab B then
\* persisted its own new record and the record of tab A is gone from storage
C11_Witness ==
    /\ last.op \in {"tabB.handleCreateTask", "tabB.handleAddSubject"}
    /\ ~last.failed
    /\ last.pre.stored = StringifyCollection(TabACollection)
    /\ \E i \in 1..Len(TabACollection) :
          /\ TabACollection[i].id \notin Ids(last.pre.tabB)
          /\ TabACollection[i].id \notin Ids(Stored(TabKey))
    /\ Len(Stored(TabKey)) = 2

-----------------------------------------------------------------------------
(* Properties of the derived metrics *)

\* the sum of the minutes of the sessions at the places I of a list
RECURSIVE SumAt(_, _)
SumAt(sessions, I) ==
    IF I = {} THEN 0
    ELSE LET i == CHOOSE i \in I : TRUE
         IN  sessions[i].durationMinutes + SumAt(sessions, I \ {i})

\* the Sunday that begins the week of the instant t, as a day
SundayOf(t) ==
    CHOOSE d \in ((t \div TicksPerDay) - 6)..(t \div TicksPerDay) : getDay(d * TicksPerDay) = 0

\* the places of the sessions of a subject dated in the week of t, from the
\* first instant of its Sunday to the last instant of its Saturday
InWeekOf(sessions, name, t) ==
    {i \in 1..Len(sessions) :
        /\ sessions[i].subject = name
        /\ sessions[i].date[1] \in SundayOf(t)..(SundayOf(t) + 6)}

\* C12: getWeeklyProgress(name) is the sum of durationMinutes of the
\* sessions of that subject dated within the current week, both ends
\* included, divided by 60; other sessions contribute nothing.
C12_WeeklyProgress ==
    last.op = "Subjects.render" =>
        \A name \in SubjectNames :
            last.hours[name] =
                Num(SumAt(metrics.sessions, InWeekOf(metrics.sessions, name, now)), 60)

\* a session at the last instant of the week counts, one of the next week
\* and one of another subject do not
C12_Witness ==
    /\ last.op = "Subjects.render"
    /\ Len(metrics.sessions) = 2
    /\ DateParse(metrics.sessions[1].date) = endOfWeek(now)
    /\ metrics.sessions[1].subject = "Math"
    /\ DateParse(metrics.sessions[2].date) > endOfWeek(now)
    /\ metrics.sessions[2].subject = "Math"
    /\ last.hours["Math"] = Num(metrics.sessions[1].durationMinutes, 60)
    /\ last.hours["Art"] = Num(0, 60)

\* the minutes a place computes its percentage from
OfSubject(sessions, name) == {i \in 1..Len(sessions) : sessions[i].subject = name}

StatsMinutes ==
    SumMinutes(getFilteredSessions(metrics.sessions, last.subject, last.timeframe, now))

WeekMinutes ==
    SumAt(metrics.sessions, InWeekOf(metrics.sessions, last.subject.name, now))

\* P / G * 100 for P = minutes / 60
Percentage(minutes, goal) == Num(minutes * 100, 60 * goal)

\* C13: the goal percentage is P/G*100 when G > 0 and 0 when G = 0, at
\* every place it is computed (in SubjectManager, below its limit of 100).
C13_GoalPercentGuarded ==
    /\ last.op = "Subjects.render" =>
          LET G == last.subject.goalHoursPerWeek
          IN  IF G > 0
              THEN NumEq(last.card.progress, Percentage(WeekMinutes, G))
              ELSE NumEq(last.card.progress, Num(0, 1))
    /\ last.op = "SubjectStats.render" =>
          LET G == last.subject.goalHoursPerWeek
          IN  IF G > 0
              THEN NumEq(last.stats.goalProgress, Percentage(StatsMinutes, G))
              ELSE NumEq(last.stats.goalProgress, Num(0, 1))
    /\ last.op = "SubjectManager.render" =>
          LET G == last.subject.goalHoursPerWeek
              P == last.progress
          IN  IF G > 0
              THEN (P.n <= G * P.d =>
                      NumEq(last.card.percent, Num(P.n * 100, P.d * G)))
              ELSE NumEq(last.card.percent, Num(0, 1))

\* the hours exceed a goal that is not zero
OverGoal(minutes, goal) == goal > 0 /\ minutes > 60 * goal

C15_Trend ==
    last.op = "SubjectStats.render" =>
        LET list == metrics.sessions
            mine == OfSubject(list, last.subject.name)
            At(i) == DateParse(list[i].date)
        IN  IF Cardinality(mine) < 2
            THEN last.trend = 0
            ELSE \E i \in mine : \E j \in mine \ {i} :
                    /\ \A k \in mine : At(i) >= At(k)
                    /\ \A k \in mine \ {i} : At(j) >= At(k)
                    /\ last.trend = list[i].durationMinutes - list[j].durationMinutes
                    /\ (last.trend > 0) =
                           (list[i].durationMinutes > list[j].durationMinutes)

\* the earlier session is stored first and the later one was longer
C15_Witness ==
    /\ last.op = "SubjectStats.render"
    /\ Len(metrics.sessions) = 2
    /\ \A i \in 1..2 : metrics.sessions[i].subject = last.subject.name
    /\ DateParse(metrics.sessions[1].date) < DateParse(metrics.sessions[2].date)
    /\ metrics.sessions[1].durationMinutes < metrics.sessions[2].durationMinutes
    /\ last.trend > 0

\* the subject has exactly the two sessions (t1, 60) and (t2, 90), t1 < t2
TrendExample ==
    /\ last.op = "SubjectStats.render"
    /\ LET list == metrics.sessions
           mine == OfSubject(list, last.subject.name)
       IN  \E i \in mine : \E j \in mine :
              /\ mine = {i, j}
              /\ DateParse(list[i].date) < DateParse(list[j].date)
              /\ list[i].durationMinutes = 60
              /\ list[j].durationMinutes = 90

\* C16 as stated: the trend of the sessions (t1, 60), (t2, 90) with t2 later
\* is 60 - 90 = -30.
C16_TrendExampleMinus30 == TrendExample => last.trend = -30

\* C16: the trend of the sessions (t1, 60), (t2, 90) with t2 later is the
\* latest minus the one before it, 90 - 60 = 30.
C16_TrendExamplePlus30 == TrendExample => last.trend = 30

\* the example, stored latest first
C16_Witness ==
    /\ TrendExample
    /\ Len(metrics.sessions) = 2
    /\ metrics.sessions[1].durationMinutes = 90
    /\ last.trend = 30

-----------------------------------------------------------------------------
(* The 7-day histogram of Analytics *)

\* Analytics has just loaded the stored sessions and rendered the histogram
HistogramShown ==
    /\ view = "analytics"
    /\ last.op = "loadStudySessions"
    /\ ~analytics.isLoading /\ analytics.error = NoError

\* the places of the stored sessions dated on the day d
StoredOn(d) ==
    {i \in 1..Len(StoredSessions) :
        DateParse(StoredSessions[i].date) \div TicksPerDay = d}

\* C17: the histogram has exactly 7 entries, the first for 6 days ago and
\* the last for today, one per day in order; the minutes of an entry are the
\* sum of the minutes of the sessions dated on its day, 0 when there is none.
C17_Histogram ==
    HistogramShown =>
        LET h == analytics.last7Days
            today == now \div TicksPerDay
        IN  /\ Len(h) = 7
            /\ h[1].date = today - 6
            /\ h[7].date = today
            /\ \A j \in 1..6 : h[j + 1].date = h[j].date + 1
            /\ \A j \in 1..7 :
                  /\ h[j].minutes = SumAt(StoredSessions, StoredOn(h[j].date))
                  /\ (StoredOn(h[j].date) = {} => h[j].minutes = 0)

\* two sessions of 30 and 20 minutes on one day, not today, and every other
\* day empty: that day's entry is 50
C17_Witness ==
    /\ HistogramShown
    /\ Len(StoredSessions) = 2
    /\ \E j \in 1..6 :
          /\ StoredOn(analytics.last7Days[j].date) = {1, 2}
          /\ analytics.last7Days[j].minutes = 50
          /\ \A k \in (1..7) \ {j} : analytics.last7Days[k].minutes = 0

-----------------------------------------------------------------------------
(* The weekly streak calendar of the Dashboard *)

\* the Dashboard has just rendered the calendar
CalendarShown ==
    /\ view = "dashboard"
    /\ last.op \in {"loadData", "handleStudySessionComplete"}
    /\ "weeklyStreak" \in DOMAIN last

\* a session of the Dashboard is dated on weekday d of the current week,
\* which runs from the first instant of its Sunday
StudiedOn(d) ==
    \E i \in 1..Len(dashboard.studyTime) :
        DateParse(dashboard.studyTime[i].date) \div TicksPerDay
            = (startOfWeek(now) \div TicksPerDay) + d

\* C18: each of the 7 flags of the weekly streak calendar is true exactly
\* when a session is dated on that day of the week that getWeeklyProgress
\* uses (from Sunday 00:00), whatever the time of day of the session or of
\* the current moment.
C18_WeeklyStreakFlags ==
    CalendarShown => \A d \in 0..6 : last.weeklyStreak[d] = StudiedOn(d)

-----------------------------------------------------------------------------
(* Sessions of one calendar day and the streak *)

\* the number of sessions the list holds that are dated on the day of t
SessionsOnDayOf(studyTime, t) ==
    Cardinality({i \in 1..Len(studyTime) :
                    toDateString(DateParse(studyTime[i].date)) = toDateString(t)})

\* a session was completed on a day on which the Dashboard already held one
SameDaySessionCompleted ==
    /\ SessionCompleted
    /\ SessionsOnDayOf(last.pre.dashboard.studyTime, now) >= 1

\* C19: a session completed on a calendar day on which a session was
\* already recorded raises currentStreak by exactly 1.
C19_SameDayIncrements ==
    SameDaySessionCompleted =>
        dashboard.streak.currentStreak
            = last.pre.dashboard.streak.currentStreak + 1

-----------------------------------------------------------------------------
(* The stored sessions only grow *)

\* the sessions that a storage holds under 'studyTime'
SessionsIn(store) == LoadCollection(store, "studyTime").value

\* list b is list a with exactly one element added at the end
AppendsOne(a, b) ==
    /\ Len(b) = Len(a) + 1
    /\ SubSeq(b, 1, Len(a)) = a

\* C20: every step leaves the stored sessions as they were or appends
\* exactly one session at their end; no stored session is modified,
\* reordered or removed.
C20_AppendOnly ==
    [][\/ SessionsIn(ls') = SessionsIn(ls)
       \/ AppendsOne(SessionsIn(ls), SessionsIn(ls'))]_vars

\* what C20 says of a stored session: every step keeps the sessions that
\* were stored, in their places
StoredSessionsKept ==
    [][/\ Len(SessionsIn(ls')) >= Len(SessionsIn(ls))
       /\ SubSeq(SessionsIn(ls'), 1, Len(SessionsIn(ls))) = SessionsIn(ls)]_vars

-----------------------------------------------------------------------------
(* Forms with an empty required field *)

\* a required field left blank: empty, or white space only
Blank(text) == trim(text) = ""

\* the subjects that the last handler added or changed
TouchedSubjects ==
    {i \in 1..Len(subjectsView.subjects) :
        \/ i > Len(last.pre.subjects)
        \/ subjectsView.subjects[i] # last.pre.subjects[i]}

\* C21: a form submitted with a blank required field changes nothing: the
\* subject form adds or edits no subject under a blank name, addNote and
\* saveEdit with a blank title or content leave the notes as they were, and
\* addAchievement with a blank title or description leaves the achievements
\* as they were.
C21_BlankFieldRejected ==
    /\ (view = "subjects" /\ last.op \in {"handleAddSubject", "handleEditSubject"}) =>
          \A i \in TouchedSubjects : ~Blank(subjectsView.subjects[i].name)
    /\ (view = "notes" /\ last.op \in {"addNote", "saveEdit"}
          /\ (Blank(last.title) \/ Blank(last.content))) =>
          notesView.notes = last.pre.notes
    /\ (view = "profile" /\ last.op = "addAchievement"
          /\ (Blank(last.newAchievement.title)
               \/ Blank(last.newAchievement.description))) =>
          profileView.profile.achievements
              = last.pre.profileView.profile.achievements

-----------------------------------------------------------------------------
(* Frame of the task handlers *)

\* C22: handleTaskComplete(id) flips the completed flag of the task with
\* that id and changes nothing else, and two toggles give the collection
\* back; handleUpdateTask keeps the id and the completed flag of the edited
\* task and leaves the other tasks as they were; a task handler removes a
\* task only in handleDeleteTask, which removes exactly the task of the id.
C22_TaskFrame ==
    view = "tasks" =>
      /\ last.op = "handleTaskComplete" =>
            /\ Len(tasksView.tasks) = Len(last.pre.tasks)
            /\ \A i \in 1..Len(last.pre.tasks) :
                  tasksView.tasks[i] =
                      IF last.pre.tasks[i].id = last.arg
                      THEN [last.pre.tasks[i] EXCEPT !.completed = ~@]
                      ELSE last.pre.tasks[i]
      /\ TasksShown =>
            \A id \in TaskIds :
                handleTaskComplete(handleTaskComplete(tasksView, id), id).tasks
                    = tasksView.tasks
      /\ last.op = "handleUpdateTask" =>
            /\ Len(tasksView.tasks) = Len(last.pre.tasks)
            /\ \A i \in 1..Len(last.pre.tasks) :
                  /\ tasksView.tasks[i].id = last.pre.tasks[i].id
                  /\ tasksView.tasks[i].completed = last.pre.tasks[i].completed
                  /\ last.pre.tasks[i].id \notin {task.id : task \in last.pre.editingTask} =>
                        tasksView.tasks[i] = last.pre.tasks[i]
      /\ last.op = "handleDeleteTask" =>
            tasksView.tasks =
                SelectSeq(last.pre.tasks, LAMBDA task : task.id # last.arg)
      /\ last.op \in {"handleTaskComplete", "handleUpdateTask", "handleCreateTask"} =>
            Ids(last.pre.tasks) \subseteq Ids(tasksView.tasks)

\* the second of two tasks was toggled back to pending; the first is as it was
C22_Witness ==
    /\ view = "tasks"
    /\ last.op = "handleTaskComplete"
    /\ Len(tasksView.tasks) = 2
    /\ last.arg = tasksView.tasks[2].id
    /\ last.pre.tasks[2].completed /\ ~tasksView.tasks[2].completed
    /\ tasksView.tasks[1] = last.pre.tasks[1]

-----------------------------------------------------------------------------
(* The per-subject timer *)

\* the hours tracked for a subject
Tracked(progressMap, id) == IF id \in DOMAIN progressMap THEN progressMap[id] ELSE 0

\* the hours between two instants
HoursBetween(start, end) == ((end - start) * 24) \div TicksPerDay

\* C23: handleStop(id) on a running timer adds the time since handleStart(id)
\* to progressMap[id], which never decreases, and removes the start timestamp
\* of id; without a running timer it changes nothing; no timer operation
\* writes to storage.
C23_TimerStop ==
    (view = "subjects" /\ last.op \in {"handleStart", "handleStop"}) =>
      LET before == last.pre.manager
          id == last.id
      IN  /\ ls = last.pre.ls
          /\ (last.op = "handleStop" /\ id \in DOMAIN before.startTimes) =>
                /\ Tracked(manager.progressMap, id)
                      = Tracked(before.progressMap, id)
                        + HoursBetween(before.startTimes[id], now)
                /\ Tracked(manager.progressMap, id) >= Tracked(before.progressMap, id)
                /\ id \notin DOMAIN manager.startTimes
                /\ \A k \in DOMAIN before.startTimes \ {id} :
                      /\ k \in DOMAIN manager.startTimes
                      /\ manager.startTimes[k] = before.startTimes[k]
                /\ \A k \in SubjectIds \ {id} :
                      Tracked(manager.progressMap, k) = Tracked(before.progressMap, k)
          /\ (last.op = "handleStop" /\ id \notin DOMAIN before.startTimes) =>
                manager = before

\* a second cycle of a timer ends: the hours of both cycles are tracked
C23_Witness ==
    /\ view = "subjects"
    /\ last.op = "handleStop"
    /\ last.id \in DOMAIN last.pre.manager.startTimes
    /\ Tracked(last.pre.manager.progressMap, last.id) > 0
    /\ now > last.pre.manager.startTimes[last.id]
    /\ Tracked(manager.progressMap, last.id)
          > Tracked(last.pre.manager.progressMap, last.id)

-----------------------------------------------------------------------------
(* The weekly goal of a subject *)

\* C24: every subject created or edited through the SubjectManager form has
\* goalHoursPerWeek >= 0, whatever was typed into the weekly-goal field.
C24_GoalNonNegative ==
    (view = "subjects" /\ subjectsView.mounted) =>
        /\ \A i \in 1..Len(subjectsView.subjects) :
              subjectsView.subjects[i].goalHoursPerWeek >= 0
        /\ \A i \in 1..Len(Stored("subjects")) :
              Stored("subjects")[i].goalHoursPerWeek >= 0

\* a subject was saved after a negative number was typed: its goal is 0
C24_Witness ==
    /\ view = "subjects"
    /\ last.op \in {"handleAddSubject", "handleEditSubject"}
    /\ GoalFieldChange([minus |-> TRUE, digits |-> 7, rest |-> ""]) = 0
    /\ \E i \in 1..Len(subjectsView.subjects) :
          /\ subjectsView.subjects[i].goalHoursPerWeek = 0
          /\ (i > Len(last.pre.subjects)
                 \/ subjectsView.subjects[i] # last.pre.subjects[i])

-----------------------------------------------------------------------------
(* Bulk delete and its Undo *)

\* the subjects of `list` whose id is not in the selection
NotSelected(list, selected) ==
    LET Keep(subject) == \A i \in 1..Len(selected) : selected[i] # subject.id
    IN  SelectSeq(list, Keep)

\* C25: handleBulkDelete with the selection S (two or more subjects included)
\* removes every subject whose id is in S, in memory and in the stored
\* 'subjects', and no other subject.
C25_BulkDeleteRemovesSelected ==
    (view = "subjects" /\ last.op = "handleBulkDelete" /\ ~last.failed) =>
        /\ subjectsView.subjects
             = NotSelected(last.pre.subjects, last.pre.selectedSubjects)
        /\ last.pre.selectedSubjects # <<>> =>
             Stored("subjects")
               = NotSelected(last.pre.subjects, last.pre.selectedSubjects)

\* the subjects a bulk delete took out of the list
RemovedBy(before, after) ==
    LET Gone(subject) == subject.id \notin Ids(after)
    IN  SelectSeq(before, Gone)

SameSubjectData(a, b) ==
    /\ a.name = b.name /\ a.description = b.description
    /\ a.color = b.color /\ a.goalHoursPerWeek = b.goalHoursPerWeek

\* C26: Undo pressed in the toast right after a bulk delete puts back every
\* subject the bulk delete removed, with the same name, description, colour
\* and weekly goal.
C26_UndoRestores ==
    [][(/\ view = "subjects"
        /\ last.op = "handleBulkDelete" /\ ~last.failed
        /\ last'.op = "handleUndoBulkDelete" /\ ~last'.failed)
       => LET removed == RemovedBy(last.pre.subjects, subjectsView.subjects)
          IN  \A i \in 1..Len(removed) :
                \E j \in 1..Len(subjectsView'.subjects) :
                    SameSubjectData(removed[i], subjectsView'.subjects[j])]_vars

-----------------------------------------------------------------------------
(* The Dashboard loads before it writes *)

\* what loadData() wrote to a key: the text of the value it had loaded
LoadedText(loading, key) ==
    IF key = "studyTime"
    THEN StringifySessions(loading.studyTime)
    ELSE Text(StringifyStreak(loading.streak))

\* C27: the Dashboard writes neither 'studyTime' nor 'streak' while isLoading
\* is true; the first write to each key after mounting is made when loadData
\* resolves and stores the value loaded from that key; mounting never
\* replaces stored sessions or a stored streak by the initial empty list or
\* the default streak.
C27_LoadBeforeWrite ==
    [][view = "dashboard" =>
        /\ (dashboard'.mounted /\ dashboard'.isLoading) => ls' = ls
        /\ (dashboard.mounted /\ dashboard.isLoading /\ ls' # ls) =>
              last'.op = "loadData"
        /\ last'.op = "loadData" =>
              \A key \in {"studyTime", "streak"} :
                 /\ ls'[key] \in {ls[key], LoadedText(dashboard.loading, key)}
                 /\ key \notin last'.failed =>
                       ls'[key] = LoadedText(dashboard.loading, key)
                 /\ Truthy(ls[key]) => ls'[key] = ls[key]]_vars

\* a Dashboard mounted over stored sessions and a stored streak has loaded
\* them and written them back
C27_Witness ==
    /\ view = "dashboard"
    /\ last.op = "loadData" /\ last.failed = {}
    /\ last.pre.dashboard.isLoading /\ last.pre.dashboard.studyTime = <<>>
    /\ Len(dashboard.studyTime) > 0
    /\ dashboard.streak.currentStreak > 0
    /\ ls["studyTime"] = StringifySessions(dashboard.studyTime)
    /\ ls["streak"] = Text(StringifyStreak(dashboard.streak))

-----------------------------------------------------------------------------
(* The best streak *)

\* C28: bestStreak never decreases: after each completed session, on
\* whatever day it is completed, bestStreak is at least what it was before
\* the session.
C28_BestStreakMonotone ==
    (view = "dashboard" /\ SessionCompleted) =>
        dashboard.streak.bestStreak >= last.pre.dashboard.streak.bestStreak

\* a session completed after a gap of more than one day, with a best streak
\* of 2 reached before the gap: the streak restarts and the best one stays
C28_Witness ==
    /\ view = "dashboard" /\ SessionCompleted
    /\ last.pre.dashboard.streak.bestStreak = 2
    /\ dashboard.streak.currentStreak = 1
    /\ dashboard.streak.bestStreak = 2

-----------------------------------------------------------------------------
(* The avatar read *)

\* C29: when the file read started by handleAvatarChange completes, only
\* the avatar of the in-memory profile changes: the name, email, bio, study
\* preferences and achievements edited since the file was chosen are
\* retained, and a Cancel issued in between is not undone.
C29_OnlyAvatarChanges ==
    (view = "profile" /\ last.op = "reader.onloadend") =>
        /\ profileView.profile
             = [last.pre.profileView.profile EXCEPT
                   !.avatar = profileView.profile.avatar]
        /\ profileView.isEditing = last.pre.profileView.isEditing

-----------------------------------------------------------------------------
(* The stored profile *)

\* the profile that storage holds, or the default when it holds none
PersistedProfile(store) ==
    IF Truthy(store["profile"]) /\ ~JSON_parse(store["profile"]).threw
    THEN JSON_parse(store["profile"]).value
    ELSE defaultProfile

EditOps ==
    {"handleProfileChange", "handleStudyPrefChange", "addAchievement",
     "removeAchievement"}

====
